---- MODULE Spec2Model ----
(***************************************************************************)
(* SCORM-merge: the background description task manager                    *)
(* (server/descriptionTaskManager.js, server/openaiService.js) and the     *)
(* session / merge path (server/index.js, server/scormProcessor.js).       *)
(*                                                                         *)
(* JavaScript runs one handler at a time; a handler gives up control only  *)
(* at an await.  Every action below is one such uninterrupted stretch of   *)
(* code: from an entry point or the resumption of an await up to the next  *)
(* await or the return.                                                    *)
(***************************************************************************)
EXTENDS Integers, Sequences, FiniteSets, TLC

\* ------------------------------------------------------------------ bounds
\* Number of startDescriptionGeneration calls in a behaviour (task ids handed out).
MaxTasks == 2

\* ------------------------------------------------------------- text helpers
\* JavaScript strings are TLA+ strings; characters are one-character strings.
CharAt(s, i) == SubSeq(s, i, i)

UpperAlphabet == "ABCDEFGHIJKLMNOPQRSTUVWXYZ"
LowerAlphabet == "abcdefghijklmnopqrstuvwxyz"

\* String.prototype.toLowerCase on one character (ASCII letters).
LowerChar(c) ==
  IF \E k \in 1..26 : CharAt(UpperAlphabet, k) = c
  THEN CharAt(LowerAlphabet, CHOOSE k \in 1..26 : CharAt(UpperAlphabet, k) = c)
  ELSE c

RECURSIVE ToLowerCase(_)
ToLowerCase(s) ==
  IF Len(s) = 0 THEN "" ELSE LowerChar(Head(s)) \o ToLowerCase(Tail(s))

\* String.prototype.includes
Includes(s, sub) ==
  \E k \in 1..(Len(s) - Len(sub) + 1) : SubSeq(s, k, k + Len(sub) - 1) = sub

IsSpace(c) == c = " "

RECURSIVE TrimStart(_)
TrimStart(s) ==
  IF Len(s) > 0 /\ IsSpace(Head(s)) THEN TrimStart(Tail(s)) ELSE s

RECURSIVE TrimEnd(_)
TrimEnd(s) ==
  IF Len(s) > 0 /\ IsSpace(CharAt(s, Len(s)))
  THEN TrimEnd(SubSeq(s, 1, Len(s) - 1)) ELSE s

\* String.prototype.trim
Trim(s) == TrimEnd(TrimStart(s))

\* Math.round(n / d * 100) for n >= 0, d > 0
RoundPercent(n, d) == (200 * n + d) \div (2 * d)

\* ------------------------------------------------------- package universe
\* The package records handed to the task manager, to /api/reorder and to
\* mergePackages.  pkgA has the sentinel title and no resources, pkgB an authored
\* description, pkgC a title that needs escaping and a first resource without
\* href, pkgE is an upload that failed to parse (index.js gives such a record an
\* error field, and no version or resources).
PackageIds == {"pkgA", "pkgB", "pkgC", "pkgE"}

PackageData(id) ==
  CASE id = "pkgA" ->
         [id |-> id, title |-> "Untitled", filename |-> "apple-intro.zip",
          path |-> "uploads/1-apple-intro.zip", description |-> "", version |-> "Unknown",
          contentSample |-> "Variables and functions", resources |-> <<>>, error |-> ""]
    [] id = "pkgB" ->
         [id |-> id, title |-> "Zebra Course", filename |-> "zebra.zip",
          path |-> "uploads/2-zebra.zip", description |-> "Authored zebra handbook",
          version |-> "1.2", contentSample |-> "",
          resources |-> << [identifier |-> "res1", href |-> "start.html",
                            files |-> <<"start.html", "img/logo.png">>] >>,
          error |-> ""]
    [] id = "pkgC" ->
         [id |-> id, title |-> "mango & <Lime>", filename |-> "mango.zip",
          path |-> "uploads/3-mango.zip", description |-> "", version |-> "2004 3rd Edition",
          contentSample |-> "",
          resources |-> << [identifier |-> "shared", href |-> "", files |-> <<"shared.js">>],
                           [identifier |-> "sco", href |-> "lesson.htm",
                            files |-> <<"lesson.htm">>] >>,
          error |-> ""]
    [] id = "pkgE" ->
         [id |-> id, title |-> "Broken", filename |-> "broken.zip",
          path |-> "uploads/4-broken.zip", description |-> "Error processing SCORM package",
          version |-> "", contentSample |-> "", resources |-> <<>>,
          error |-> "Invalid SCORM package: No imsmanifest.xml found at root level"]

\* pkg.error is truthy
HasError(id) == PackageData(id).error # ""

\* The package lists startDescriptionGeneration is called with: nothing but a
\* failed upload, and two packages around a failed upload.
PackageLists == { <<"pkgE">>, <<"pkgB", "pkgE", "pkgA">> }

\* ------------------------------------------------------------ openaiService
\* config.get('descriptions.fallbackEnabled') and
\* config.get('descriptions.defaultDescription') || 'Interactive SCORM learning module'
FallbackEnabled == TRUE
DefaultDescription == "SCORM learning module"

\* insights.slice(0, 2).join(' and ')
JoinFirstTwo(insights) ==
  IF Len(insights) = 1 THEN insights[1] ELSE insights[1] \o " and " \o insights[2]

\* The contentInsights suffix of getFallbackDescription.
ContentInsights(contentSample) ==
  IF Len(contentSample) > 100
  THEN LET content == ToLowerCase(contentSample)
           Has(words) == \E w \in words : Includes(content, w)
           insights ==
             (IF Has({"quiz", "question", "assessment"})
                THEN <<"includes interactive assessments">> ELSE <<>>)
             \o (IF Has({"video", "multimedia"})
                THEN <<"features multimedia content">> ELSE <<>>)
             \o (IF Has({"exercise", "practice", "activity"})
                THEN <<"provides hands-on exercises">> ELSE <<>>)
             \o (IF Has({"certificate", "completion"})
                THEN <<"offers completion certification">> ELSE <<>>)
       IN IF Len(insights) > 0 THEN " that " \o JoinFirstTwo(insights) ELSE ""
  ELSE ""

\* The if / else-if chain on the lower-cased title, in source order: the first
\* rule with one of its keywords in the title gives the sentence.
TitleRules == <<
  [any |-> {"javascript", "js"},
   text |-> "Build dynamic web applications using JavaScript programming techniques"],
  [any |-> {"python"},
   text |-> "Develop Python applications and automate tasks using modern programming practices"],
  [any |-> {"html", "css"},
   text |-> "Create responsive web pages with HTML and CSS styling techniques"],
  [any |-> {"react", "angular", "vue"},
   text |-> "Build modern web applications using component-based frontend frameworks"],
  [any |-> {"sql", "database"},
   text |-> "Design and query databases effectively using SQL and data management principles"],
  [any |-> {"leadership", "management"},
   text |-> "Develop essential leadership skills and team management strategies for professional success"],
  [any |-> {"marketing", "sales"},
   text |-> "Master marketing strategies and sales techniques to drive business growth"],
  [any |-> {"communication", "presentation"},
   text |-> "Enhance communication skills and presentation techniques for professional effectiveness"],
  [any |-> {"math", "calculus", "algebra"},
   text |-> "Solve mathematical problems and apply quantitative reasoning to real-world scenarios"],
  [any |-> {"science", "biology", "chemistry"},
   text |-> "Explore scientific principles and conduct experiments to understand natural phenomena"],
  [any |-> {"history", "social"},
   text |-> "Examine historical events and social dynamics to understand their impact on modern society"],
  [any |-> {"language", "english", "writing"},
   text |-> "Improve language skills and written communication through structured learning activities"],
  [any |-> {"safety", "health"},
   text |-> "Implement safety protocols and health practices to create a secure work environment"],
  [any |-> {"compliance", "regulation"},
   text |-> "Understand regulatory requirements and compliance procedures for your industry"] >>

\* title.replace(/course|training|module|lesson/gi, '')
RECURSIVE RemoveCourseWords(_)
RemoveCourseWords(s) ==
  IF Len(s) = 0 THEN ""
  ELSE LET words == {"course", "training", "module", "lesson"}
           hit == { w \in words : Len(w) <= Len(s) /\ ToLowerCase(SubSeq(s, 1, Len(w))) = w }
       IN IF hit # {}
          THEN LET w == CHOOSE x \in hit : TRUE
               IN RemoveCourseWords(SubSeq(s, Len(w) + 1, Len(s)))
          ELSE Head(s) \o RemoveCourseWords(Tail(s))

\* openaiService.getFallbackDescription(courseData).  The rule for 'project' and
\* 'management' together sits behind the 'management' rule and is never taken.
GetFallbackDescription(courseData) ==
  IF ~FallbackEnabled THEN ""
  ELSE LET contentInsights == ContentInsights(courseData.contentSample)
           title == ToLowerCase(courseData.title)
           matching == { k \in DOMAIN TitleRules :
                           \E w \in TitleRules[k].any : Includes(title, w) }
           cleanTitle == Trim(RemoveCourseWords(courseData.title))
           default == DefaultDescription \o contentInsights \o "."
       IN IF courseData.title # "" /\ courseData.title # "Untitled" /\ Len(courseData.title) > 3
          THEN IF matching # {}
               THEN LET first == CHOOSE k \in matching : \A j \in matching : k <= j
                    IN TitleRules[first].text \o contentInsights \o "."
               ELSE IF Len(cleanTitle) > 2
                    THEN "Gain practical knowledge and skills in " \o cleanTitle
                           \o " through engaging learning activities" \o contentInsights \o "."
                    ELSE default
          ELSE default

\* What the chat-completions request of one generateDescription call can come
\* back with: a usable text, a text of at most 10 characters, no text, or a
\* failure (network error, timeout).
GeneratorOutcomes ==
  { [kind |-> "response", content |-> " Debug three real browser apps step by step. "],
    [kind |-> "response", content |-> "Too short"],
    [kind |-> "response", content |-> ""],
    [kind |-> "error", content |-> ""] }

\* The courseData object processDescriptions builds for a package.
CourseData(id) ==
  [title |-> PackageData(id).title, filename |-> PackageData(id).filename,
   contentSample |-> PackageData(id).contentSample,
   existingDescription |-> PackageData(id).description]

\* description && description.length > 10, on the trimmed response text
UsableDescription(description) == description # "" /\ Len(description) > 10

\* openaiService.generateDescription(courseData): enabled says whether the
\* service is enabled; outcome is what the request came back with (unused when
\* the service is disabled, no request is made then).
GenerateDescription(enabled, courseData, outcome) ==
  IF ~enabled THEN GetFallbackDescription(courseData)
  ELSE IF outcome.kind = "response" /\ UsableDescription(Trim(outcome.content))
       THEN Trim(outcome.content)
       ELSE GetFallbackDescription(courseData)

\* generateDescription and getFallbackDescription are pure: their values for the
\* package universe, computed once.
FallbackDescriptionOf == [id \in PackageIds |-> GetFallbackDescription(CourseData(id))]

GeneratedDescriptionOf ==
  [enabled \in BOOLEAN |-> [id \in PackageIds |-> [outcome \in GeneratorOutcomes |->
     GenerateDescription(enabled, CourseData(id), outcome)]]]

\* ------------------------------------------------------------ ScormProcessor
\* Number of packages in a list handed to /api/reorder or to mergePackages.
MaxMergeLen == 2

Digits == "0123456789"
IsUpper(c) == \E k \in 1..26 : CharAt(UpperAlphabet, k) = c
IsLower(c) == \E k \in 1..26 : CharAt(LowerAlphabet, k) = c
IsDigit(c) == \E k \in 1..10 : CharAt(Digits, k) = c
IsLetter(c) == IsUpper(c) \/ IsLower(c)
\* the regular expression class \w
IsWordChar(c) == IsLetter(c) \/ IsDigit(c) \/ c = "_"

\* String.prototype.toUpperCase on one character (ASCII letters).
UpperChar(c) ==
  IF IsLower(c)
  THEN CharAt(UpperAlphabet, CHOOSE k \in 1..26 : CharAt(LowerAlphabet, k) = c)
  ELSE c

\* The decimal notation a template literal gives a non-negative integer.
RECURSIVE NumberToString(_)
NumberToString(n) ==
  IF n < 10 THEN CharAt(Digits, n + 1)
  ELSE NumberToString(n \div 10) \o CharAt(Digits, (n % 10) + 1)

\* String.prototype.indexOf, counted from 1 (0: not found)
IndexOf(s, sub) ==
  IF Includes(s, sub)
  THEN CHOOSE k \in 1..(Len(s) - Len(sub) + 1) :
         /\ SubSeq(s, k, k + Len(sub) - 1) = sub
         /\ \A j \in 1..(k - 1) : SubSeq(s, j, j + Len(sub) - 1) # sub
  ELSE 0

\* String.prototype.replace with a string pattern: the first occurrence only.
ReplaceFirst(s, pattern, replacement) ==
  LET k == IndexOf(s, pattern)
  IN IF k = 0 THEN s
     ELSE SubSeq(s, 1, k - 1) \o replacement \o SubSeq(s, k + Len(pattern), Len(s))

\* String.prototype.replace(/c/g, replacement) for a one-character pattern.
RECURSIVE ReplaceAll(_, _, _)
ReplaceAll(s, c, replacement) ==
  IF Len(s) = 0 THEN ""
  ELSE (IF Head(s) = c THEN replacement ELSE Head(s)) \o ReplaceAll(Tail(s), c, replacement)

\* String.prototype.endsWith
EndsWith(s, suffix) ==
  Len(s) >= Len(suffix) /\ SubSeq(s, Len(s) - Len(suffix) + 1, Len(s)) = suffix

\* The five replacements with the ampersand replaced last.
EscapeXmlAmpersandLast(text) ==
  ReplaceAll(ReplaceAll(ReplaceAll(ReplaceAll(ReplaceAll(text,
    "<", "&lt;"), ">", "&gt;"), "\"", "&quot;"), "'", "&#39;"), "&", "&amp;")

\* escapeXml: the five replacements in the order of the source.
EscapeXml(text) ==
  ReplaceAll(ReplaceAll(ReplaceAll(ReplaceAll(ReplaceAll(text,
    "&", "&amp;"), "<", "&lt;"), ">", "&gt;"), "\"", "&quot;"), "'", "&#39;")

\* filename.replace(/\.[^/.]+$/, ''): the last dot and what follows it, when
\* at least one character follows and none of them is a slash.
RemoveExtension(filename) ==
  LET dots == { k \in 1..Len(filename) : CharAt(filename, k) = "." }
  IN IF dots = {} THEN filename
     ELSE LET last == CHOOSE k \in dots : \A j \in dots : j <= k
          IN IF /\ last < Len(filename)
                /\ \A j \in (last + 1)..Len(filename) : CharAt(filename, j) # "/"
             THEN SubSeq(filename, 1, last - 1)
             ELSE filename

\* The character classes of generateFriendlyNameFromFilename's expressions.
InClass(c, class) ==
  CASE class = "[a-z0-9]" -> IsLower(c) \/ IsDigit(c)
    [] class = "[A-Z]" -> IsUpper(c)
    [] class = "[a-zA-Z]" -> IsLetter(c)
    [] class = "[0-9]" -> IsDigit(c)

\* name.replace(/(left)(right)/g, '$1 $2'): a space between every two
\* neighbours of which the first is in class left and the second in class right.
RECURSIVE InsertSpaces(_, _, _)
InsertSpaces(s, left, right) ==
  IF Len(s) < 2 THEN s
  ELSE IF InClass(CharAt(s, 1), left) /\ InClass(CharAt(s, 2), right)
       THEN CharAt(s, 1) \o " " \o InsertSpaces(Tail(s), left, right)
       ELSE CharAt(s, 1) \o InsertSpaces(Tail(s), left, right)

\* name.replace(/\s+/g, ' ')
RECURSIVE CollapseSpaces(_)
CollapseSpaces(s) ==
  IF Len(s) < 2 THEN s
  ELSE IF IsSpace(CharAt(s, 1)) /\ IsSpace(CharAt(s, 2))
       THEN CollapseSpaces(Tail(s))
       ELSE CharAt(s, 1) \o CollapseSpaces(Tail(s))

\* name.replace(/\b\w/g, l => l.toUpperCase()); previous is the character before s.
RECURSIVE CapitalizeWords(_, _)
CapitalizeWords(s, previous) ==
  IF Len(s) = 0 THEN ""
  ELSE (IF IsWordChar(Head(s)) /\ ~IsWordChar(previous) THEN UpperChar(Head(s)) ELSE Head(s))
         \o CapitalizeWords(Tail(s), Head(s))

\* generateFriendlyNameFromFilename
GenerateFriendlyNameFromFilename(filename) ==
  LET noExtension == RemoveExtension(filename)
      separated == ReplaceAll(ReplaceAll(noExtension, "-", " "), "_", " ")
      camel == InsertSpaces(separated, "[a-z0-9]", "[A-Z]")
      letterDigit == InsertSpaces(camel, "[a-zA-Z]", "[0-9]")
      digitLetter == InsertSpaces(letterDigit, "[0-9]", "[a-zA-Z]")
      cleaned == Trim(CollapseSpaces(digitLetter))
      name == CapitalizeWords(cleaned, " ")
  IN IF name # "" THEN name ELSE "Untitled Course"

\* getDisplayTitle
GetDisplayTitle(pkg) ==
  IF pkg.title # "" /\ pkg.title # "Untitled" /\ pkg.title # "Untitled SCORM Package"
  THEN pkg.title
  ELSE IF pkg.filename # ""
       THEN GenerateFriendlyNameFromFilename(pkg.filename)
       ELSE IF pkg.title # "" THEN pkg.title ELSE "Untitled Course"

DisplayTitleOf == [id \in PackageIds |-> GetDisplayTitle(PackageData(id))]

\* The uploaded archives, by path: zipContents.files in archive order.
ArchiveOf(path) ==
  CASE path = "uploads/1-apple-intro.zip" ->
         << [name |-> "imsmanifest.xml", dir |-> FALSE, content |-> "<manifest/>"],
            [name |-> "index.html", dir |-> FALSE,
             content |-> "<html><head></head><body>Apple</body></html>"] >>
    [] path = "uploads/2-zebra.zip" ->
         << [name |-> "start.html", dir |-> FALSE, content |-> "<body>Zebra</body>"],
            [name |-> "img/", dir |-> TRUE, content |-> ""],
            [name |-> "img/logo.png", dir |-> FALSE, content |-> "PNG"],
            [name |-> "imsmanifest.xml", dir |-> FALSE, content |-> "<manifest/>"] >>
    [] path = "uploads/3-mango.zip" ->
         << [name |-> "imsmanifest.xml", dir |-> FALSE, content |-> "<manifest/>"],
            [name |-> "shared.js", dir |-> FALSE, content |-> "js()"],
            [name |-> "lesson.htm", dir |-> FALSE, content |-> "Mango"] >>
    [] path = "uploads/4-broken.zip" ->
         << [name |-> "NOTES.HTML", dir |-> FALSE, content |-> "<p>Broken</p></html>"] >>

\* createFinishHandlerScript: a constant text; its script body is abridged here.
FinishHandlerScript == "\n<!-- SCORM Merge Finish Handler -->\n<script>returnToMenu</script>\n"

\* File contents are written as text.  In a content, InvalidByte stands for a
\* byte that begins no UTF-8 sequence (0xE9, the Latin-1 code of e acute), and
\* ReplacementChar for U+FFFD, whose encoding is the three bytes EF BF BD.
InvalidByte == "~"
ReplacementChar == "?"

\* content.toString('utf8'): an invalid byte decodes to U+FFFD.
Utf8Decode(bytes) == ReplaceAll(bytes, InvalidByte, ReplacementChar)

\* Buffer.from(htmlContent, 'utf8'): every character to its own encoding.
Utf8Encode(text) == text

\* mergePackages, the injection of the finish handler into one HTML file.
InjectFinishHandler(htmlContent) ==
  IF Includes(htmlContent, "</head>")
  THEN ReplaceFirst(htmlContent, "</head>", FinishHandlerScript \o "\n</head>")
  ELSE IF Includes(htmlContent, "</body>")
       THEN ReplaceFirst(htmlContent, "</body>", FinishHandlerScript \o "\n</body>")
       ELSE IF Includes(htmlContent, "</html>")
            THEN ReplaceFirst(htmlContent, "</html>", FinishHandlerScript \o "\n</html>")
            ELSE htmlContent \o FinishHandlerScript

\* filename.toLowerCase().endsWith('.html') || filename.toLowerCase().endsWith('.htm')
IsHtmlFile(filename) ==
  EndsWith(ToLowerCase(filename), ".html") \/ EndsWith(ToLowerCase(filename), ".htm")

\* mergePackages, inner loop: the content stored for one copied file.
CopiedContent(filename, content) ==
  IF IsHtmlFile(filename)
  THEN Utf8Encode(InjectFinishHandler(Utf8Decode(content)))
  ELSE content

\* The folder named after the 0-based index.
PackageFolderFromZero(index) == "package_" \o NumberToString(index)

\* `package_${index + 1}` for the 0-based index
PackageFolder(index) == "package_" \o NumberToString(index + 1)

\* mergePackages, inner loop: the entries one package adds to the merged archive.
RECURSIVE CopyEntries(_, _)
CopyEntries(files, packageFolder) ==
  IF files = <<>> THEN <<>>
  ELSE LET file == Head(files)
           copied ==
             IF file.name # "imsmanifest.xml" /\ ~file.dir
             THEN << [name |-> packageFolder \o "/" \o file.name,
                      content |-> CopiedContent(file.name, file.content)] >>
             ELSE <<>>
       IN copied \o CopyEntries(Tail(files), packageFolder)

CopiedEntriesOf ==
  [id \in PackageIds |->
     [index \in 0..(Cardinality(PackageIds) - 1) |->
        CopyEntries(ArchiveOf(PackageData(id).path), PackageFolder(index))]]

\* createMergedManifest: 'pkg.resources.find(r => r.href) || pkg.resources[0]'
MainHref(pkg) ==
  LET withHref == { k \in DOMAIN pkg.resources : pkg.resources[k].href # "" }
  IN IF withHref = {} THEN "index.html"
     ELSE pkg.resources[CHOOSE k \in withHref : \A j \in withHref : k <= j].href

\* createMergedManifest: the <file> elements listed for the package's resources
RECURSIVE ResourceFiles(_, _)
ResourceFiles(resources, packageFolder) ==
  IF resources = <<>> THEN <<>>
  ELSE [k \in DOMAIN Head(resources).files |-> packageFolder \o "/" \o Head(resources).files[k]]
         \o ResourceFiles(Tail(resources), packageFolder)

\* createMergedManifest: the <item> elements, the menu item first
ManifestItems(packages) ==
  << [identifier |-> "menu_item", identifierref |-> "menu_resource", title |-> "Course Menu"] >>
    \o [k \in DOMAIN packages |->
          [identifier |-> "item_" \o NumberToString(k),
           identifierref |-> "resource_pkg_" \o NumberToString(k),
           title |-> EscapeXml(DisplayTitleOf[packages[k]])]]

\* createMergedManifest: the <resource> elements, the menu resource first
ManifestResources(packages) ==
  << [identifier |-> "menu_resource", href |-> "menu/index.html",
      files |-> <<"menu/index.html", "menu/menu.js", "menu/style.css">>] >>
    \o [k \in DOMAIN packages |->
          LET pkg == PackageData(packages[k])
              packageFolder == PackageFolder(k - 1)
          IN [identifier |-> "resource_pkg_" \o NumberToString(k),
              href |-> packageFolder \o "/" \o MainHref(pkg),
              files |-> << packageFolder \o "/" \o MainHref(pkg) >>
                          \o ResourceFiles(pkg.resources, packageFolder)]]

\* A manifest whose sequences hold the packages in the opposite order.
CreateMergedManifestReversed(packages) ==
  LET reversed == [k \in DOMAIN packages |-> packages[Len(packages) + 1 - k]]
  IN [items |-> ManifestItems(reversed), resources |-> ManifestResources(reversed)]

\* createMergedManifest: the document, as its item and resource sequences
CreateMergedManifest(packages) ==
  [items |-> ManifestItems(packages), resources |-> ManifestResources(packages)]

\* createMenuFiles: the menu-item blocks of menu/index.html and the packageData
\* array of menu/menu.js
CreateMenuFiles(packages) ==
  [entries |->
     [k \in DOMAIN packages |->
        LET pkg == PackageData(packages[k])
        IN [dataPackage |-> k,
            title |-> EscapeXml(DisplayTitleOf[packages[k]]),
            description |-> EscapeXml(IF pkg.description # "" THEN pkg.description
                                      ELSE "SCORM learning module"),
            version |-> IF pkg.version # "" THEN pkg.version ELSE "undefined",
            filename |-> pkg.filename,
            launch |-> k]],
   packageData |->
     [k \in DOMAIN packages |->
        LET pkg == PackageData(packages[k])
        IN [title |-> DisplayTitleOf[packages[k]],
            mainFile |-> IF pkg.resources # <<>> /\ pkg.resources[1].href # ""
                         THEN pkg.resources[1].href ELSE "index.html"]]]

\* menu.js, launchPackage(packageNum): the path of the merged archive that
\* "window.location.href = '../' + packageFolder + '/' + pkg.mainFile" leads
\* to from menu/index.html; the empty string when packageData has no such entry.
LaunchPackage(menu, packageNum) ==
  IF packageNum \in DOMAIN menu.packageData
  THEN LET relative == "../" \o "package_" \o NumberToString(packageNum) \o "/"
                         \o menu.packageData[packageNum].mainFile
       IN SubSeq(relative, 4, Len(relative))
  ELSE ""

\* mergePackages: the files the package loop adds, package by package
RECURSIVE PackageEntries(_, _)
PackageEntries(packages, index) ==
  IF index >= Len(packages) THEN <<>>
  ELSE CopiedEntriesOf[packages[index + 1]][index] \o PackageEntries(packages, index + 1)

\* mergePackages: the progressCallback calls; progress is kept as the exact
\* fraction num / den, 15 + (processedPackages / packages.length) * 70 included.
MergeProgress(packages) ==
  << [step |-> "Creating merged manifest", num |-> 5, den |-> 1],
     [step |-> "Creating course menu", num |-> 10, den |-> 1] >>
  \o [k \in DOMAIN packages |->
        [step |-> "Processing package: " \o PackageData(packages[k]).title,
         num |-> 15 * Len(packages) + (k - 1) * 70, den |-> Len(packages)]]
  \o << [step |-> "Generating final package", num |-> 90, den |-> 1],
        [step |-> "Complete", num |-> 100, den |-> 1] >>

\* mergePackages(packages, progressCallback): the merged archive (the manifest,
\* the menu files, then the package folders) and the progress reported.
MergePackages(packages) ==
  [manifest |-> CreateMergedManifest(packages),
   menu |-> CreateMenuFiles(packages),
   files |-> <<"imsmanifest.xml", "menu/index.html", "menu/menu.js", "menu/style.css">>,
   entries |-> PackageEntries(packages, 0),
   progress |-> MergeProgress(packages)]

\* a.localeCompare(b) on lower-cased titles: the collation puts white space
\* and punctuation before digits and digits before letters, and a string
\* after its proper prefixes.  -1, 0 or 1.
CollationOrder == " _-,;:!?.'()[]{}@*/&#%^+<=>|~$0123456789abcdefghijklmnopqrstuvwxyz"

CollationRank(c) ==
  IF \E k \in 1..Len(CollationOrder) : CharAt(CollationOrder, k) = c
  THEN CHOOSE k \in 1..Len(CollationOrder) : CharAt(CollationOrder, k) = c
  ELSE Len(CollationOrder) + 1

RECURSIVE LocaleCompare(_, _)
LocaleCompare(a, b) ==
  IF Len(a) = 0 THEN (IF Len(b) = 0 THEN 0 ELSE -1)
  ELSE IF Len(b) = 0 THEN 1
  ELSE IF CollationRank(Head(a)) < CollationRank(Head(b)) THEN -1
  ELSE IF CollationRank(Head(a)) > CollationRank(Head(b)) THEN 1
  ELSE LocaleCompare(Tail(a), Tail(b))

\* The comparison of the display titles as they are, capitals before small letters.
CompareTitlesCaseSensitive ==
  [a \in PackageIds |-> [b \in PackageIds |->
     IF DisplayTitleOf[a] = DisplayTitleOf[b] THEN 0
     ELSE IF \E k \in 1..Len(DisplayTitleOf[a]) :
               /\ k <= Len(DisplayTitleOf[b])
               /\ SubSeq(DisplayTitleOf[a], 1, k - 1) = SubSeq(DisplayTitleOf[b], 1, k - 1)
               /\ IsUpper(CharAt(DisplayTitleOf[a], k))
               /\ IsLower(CharAt(DisplayTitleOf[b], k))
          THEN -1
          ELSE LocaleCompare(ToLowerCase(DisplayTitleOf[a]), ToLowerCase(DisplayTitleOf[b]))]]

\* The comparator /api/merge sorts with.
CompareTitles ==
  [a \in PackageIds |-> [b \in PackageIds |->
     LocaleCompare(ToLowerCase(DisplayTitleOf[a]), ToLowerCase(DisplayTitleOf[b]))]]

\* Array.prototype.sort with that comparator; the sort is stable.
RECURSIVE SortByDisplayTitle(_)
SortByDisplayTitle(packages) ==
  IF packages = <<>> THEN <<>>
  ELSE LET last == packages[Len(packages)]
           front == SortByDisplayTitle(SubSeq(packages, 1, Len(packages) - 1))
           before == SelectSeq(front, LAMBDA id : CompareTitles[id][last] <= 0)
           after == SelectSeq(front, LAMBDA id : CompareTitles[id][last] > 0)
       IN before \o <<last>> \o after

\* The package lists a client can send and a caller can merge: every list of
\* distinct packages of at most MaxMergeLen packages.
MergeLists ==
  { l \in UNION { [1..n -> PackageIds] : n \in 0..MaxMergeLen } :
      \A i, j \in DOMAIN l : i # j => l[i] # l[j] }

\* mergePackages on every such list.
MergedOutputOf == [l \in MergeLists |-> MergePackages(l)]

\* The /api/merge sort on every such list.
SortedOf == [l \in MergeLists |-> SortByDisplayTitle(l)]

VARIABLES
  sessions,  \* index.js sessions: session id -> its package list, or no entry
  merged,    \* the archive written by the mergePackages call of mergeRun: the list it was given
  response,  \* the HTTP response of the last request
  mergeRun,  \* the mergePackages call in progress, or the one that ended since the last request
  uploadRun  \* the /api/upload request in progress

mergeVars == <<sessions, merged, response, mergeRun, uploadRun>>

NoSession == [present |-> FALSE, packages |-> <<>>, fields |-> <<>>]
NoMerge == [called |-> FALSE, packages |-> <<>>]

\* What the last mergePackages call produced.
MergedOutput == MergedOutputOf[merged.packages]
NoResponse ==
  [op |-> "none", sessionId |-> "", status |-> 0, error |-> "", downloadUrl |-> FALSE,
   count |-> 0]

\* No /api/upload request is in progress.
NoUpload == [pc |-> "idle", sessionId |-> "", files |-> <<>>, packages |-> <<>>]

\* Number of files in one /api/upload request.
MaxUploadFiles == 2

\* No mergePackages call has been made.
NoRun ==
  [pc |-> "idle", caller |-> "none", sessionId |-> "", stored |-> <<>>, packages |-> <<>>,
   titles |-> <<>>, processed |-> 0, progress |-> <<>>, written |-> FALSE, error |-> ""]

\* ------------------------------------------------------------ progress sink
\* The WebSocket of a session as the callbacks of index.js see it: 'session.ws'
\* is missing ("absent"), or its readyState is OPEN ("open") or not ("closed").
SocketStates == {"absent", "open", "closed"}

VARIABLES
  socket,  \* per session: the state of session.ws
  sent     \* per session: the types of the messages handed to session.ws.send

sinkVars == <<socket, sent>>

\* ------------------------------------------------- functions on their own
VARIABLES
  applied   \* a function of the ScormProcessor run on its own: its input and result

pureVars == <<applied>>

NoCall == [op |-> "none", name |-> "", input |-> "", done |-> FALSE, output |-> ""]

PureInit == applied = NoCall

\* The callbacks index.js passes to the task manager and to mergePackages:
\* 'if (session.ws && session.ws.readyState === WebSocket.OPEN) session.ws.send(...)'
\* The progress callback wraps each event: { type: 'description_progress', progress }
ProgressMessages(events) ==
  [k \in DOMAIN events |-> [type |-> "description_progress", progress |-> events[k]]]

WsSend(sessionId, messages) ==
  IF socket[sessionId] = "open"
  THEN [sent EXCEPT ![sessionId] = @ \cup { messages[k].type : k \in DOMAIN messages }]
  ELSE sent

\* ------------------------------------------------- DescriptionTaskManager
Sessions == {"s1"}
TaskIds == 1..MaxTasks

VARIABLES
  openaiEnabled,   \* openaiService.isEnabled(): fixed by the configuration
  activeTasks,     \* this.activeTasks: session -> task (0: no entry)
  taskResults,     \* this.taskResults: session -> result object, or no entry
  tasks,           \* the task objects ever created, by task id
  nextTaskId,      \* the next fresh task id (uuidv4)
  pendingStarts,   \* startDescriptionGeneration calls suspended at 'await this.cancelTask'
  progressEvents,  \* per task: the calls of its progressCallback, in order
  updateEvents,    \* per task: the calls of its updateCallback, in order
  returned,        \* what the API call of the last step returned
  storedAtCancel   \* history: per task, how many results it had stored when cancelTask
                   \* cancelled it (-1: cancelTask has not cancelled it)

taskVars == <<openaiEnabled, activeTasks, taskResults, tasks, nextTaskId, pendingStarts,
              progressEvents, updateEvents, returned, storedAtCancel>>

\* A JavaScript object used as a map is a function whose domain is its keys.
EmptyObject == [k \in {} |-> ""]
SetKey(obj, key, value) ==
  [k \in DOMAIN obj \cup {key} |-> IF k = key THEN value ELSE obj[k]]

NoTaskId == 0
NoEntry == [present |-> FALSE, map |-> EmptyObject]
NoReturn == [op |-> "none", sessionId |-> "", value |-> FALSE]

\* A task id whose object has not been created yet.
Unborn ==
  [sessionId |-> "", status |-> "none", packages |-> <<>>, completed |-> 0, total |-> 0,
   results |-> EmptyObject, cancelled |-> FALSE, error |-> "", pc |-> "none", i |-> 0]

\* The list as it is, records with an error included.
AllPackages(packages) == packages

\* packages.filter(pkg => !pkg.error)
ValidPackages(packages) == SelectSeq(packages, LAMBDA id : ~HasError(id))

\* The task object built by startDescriptionGeneration.
NewTask(sessionId, packages) ==
  [sessionId |-> sessionId, status |-> "running", packages |-> ValidPackages(packages),
   completed |-> 0, total |-> 0, results |-> EmptyObject, cancelled |-> FALSE,
   error |-> "", pc |-> "none", i |-> 0]

\* A cancelTask that does not look at the status.
CancelTaskAppliesToAny(sessionId) == activeTasks[sessionId] # NoTaskId

\* cancelTask: 'task && task.status === "running"'
CancelTaskApplies(sessionId) ==
  /\ activeTasks[sessionId] # NoTaskId
  /\ tasks[activeTasks[sessionId]].status = "running"

\* cancelTask's effect on the task objects.
CancelTaskEffect(sessionId) ==
  IF CancelTaskApplies(sessionId)
  THEN [tasks EXCEPT ![activeTasks[sessionId]].cancelled = TRUE,
                     ![activeTasks[sessionId]].status = "cancelled"]
  ELSE tasks

\* The history variable after cancelTask(sessionId).
CancelTaskHistory(sessionId) ==
  IF CancelTaskApplies(sessionId)
  THEN [storedAtCancel EXCEPT ![activeTasks[sessionId]] =
          Cardinality(DOMAIN tasks[activeTasks[sessionId]].results)]
  ELSE storedAtCancel

\* A loop that never looks at the cancel flag.
LoopIgnoresCancel(task) == FALSE

\* processDescriptions, top of the loop: 'if (task.cancelled)'
LoopSeesCancel(task) == task.cancelled

\* A completion that does not look at the cancel flag.
CompletionAlways(task) == TRUE

\* processDescriptions, after the loop: 'if (!task.cancelled)'
CompletionAllowed(task) == ~task.cancelled

\* A final event that stops short of 100.
CompletedEventAt99 == [type |-> "completed", progress |-> 99]

\* processDescriptions: the event of the completion block
CompletedEvent == [type |-> "completed", progress |-> 100]

\* The package of the current loop iteration, packages[i].
CurrentPackage(task) == task.packages[task.i + 1]

\* processDescriptions from the loop condition 'i < packages.length' to the next
\* await or the return: the task after it and the progress events it emits.
LoopStep(task) ==
  IF task.i < Len(task.packages)
  THEN IF LoopSeesCancel(task)
       THEN [task |-> [task EXCEPT !.status = "cancelled", !.pc = "done"],
             events |-> << [type |-> "cancelled",
                            progress |-> RoundPercent(task.completed, task.total)] >>]
       ELSE [task |-> [task EXCEPT !.pc = "generating"],
             events |-> << [type |-> "progress",
                            progress |-> RoundPercent(task.i, Len(task.packages))] >>]
  ELSE IF CompletionAllowed(task)
       THEN [task |-> [task EXCEPT !.status = "completed", !.pc = "done"],
             events |-> << CompletedEvent >>]
       ELSE [task |-> [task EXCEPT !.pc = "done"], events |-> <<>>]

\* The 'started' event emitted after the first turn of the loop.
ProcessStartLate(task) ==
  LET started == [task EXCEPT !.total = Len(task.packages)]
      step == LoopStep(started)
  IN [task |-> step.task,
      events |-> step.events \o << [type |-> "started", progress |-> 0] >>]

\* processDescriptions from its first line to the first await.
ProcessStart(task) ==
  LET started == [task EXCEPT !.total = Len(task.packages)]
      step == LoopStep(started)
  IN [task |-> step.task,
      events |-> << [type |-> "started", progress |-> 0] >> \o step.events]

\* The handler startDescriptionGeneration attaches with .catch to processDescriptions.
FailureHandler(task, message) ==
  IF task.status = "running"
  THEN [task |-> [task EXCEPT !.status = "failed", !.error = message, !.pc = "done"],
        events |-> << [type |-> "error", progress |-> 0] >>]
  ELSE [task |-> [task EXCEPT !.pc = "done"], events |-> <<>>]

TypeErrorMessage == "Cannot set properties of undefined"

\* getTaskStatus(sessionId)
GetTaskStatus(sessionId) ==
  IF activeTasks[sessionId] = NoTaskId
  THEN [status |-> "not_found"]
  ELSE LET task == tasks[activeTasks[sessionId]]
       IN [id |-> activeTasks[sessionId], status |-> task.status,
           progress |-> IF task.total > 0 THEN RoundPercent(task.completed, task.total) ELSE 0,
           completed |-> task.completed, total |-> task.total,
           cancelled |-> task.cancelled, error |-> task.error]

\* The results read from the last task object when the session has no entry.
GetTaskResultsOfLastTask(sessionId) ==
  IF taskResults[sessionId].present THEN taskResults[sessionId].map
  ELSE IF nextTaskId > 1 THEN tasks[nextTaskId - 1].results ELSE EmptyObject

\* getTaskResults(sessionId): this.taskResults.get(sessionId) || {}
GetTaskResults(sessionId) ==
  IF taskResults[sessionId].present THEN taskResults[sessionId].map ELSE EmptyObject

TaskInit ==
  /\ openaiEnabled \in BOOLEAN
  /\ activeTasks = [s \in Sessions |-> NoTaskId]
  /\ taskResults = [s \in Sessions |-> NoEntry]
  /\ tasks = [t \in TaskIds |-> Unborn]
  /\ nextTaskId = 1
  /\ pendingStarts = <<>>
  /\ progressEvents = [t \in TaskIds |-> <<>>]
  /\ updateEvents = [t \in TaskIds |-> <<>>]
  /\ returned = NoReturn
  /\ storedAtCancel = [t \in TaskIds |-> -1]

\* The object processDescriptions hands to updateCallback.
UpdateEvent(task, id, description, fallback) ==
  [type |-> "description_updated", packageId |-> id, description |-> description,
   progress |-> RoundPercent(task.i + 1, Len(task.packages)), fallback |-> fallback]

\* startDescriptionGeneration up to 'await this.cancelTask(sessionId)': the task id
\* is drawn, the session's running task is cancelled, and the call is suspended.
StartCall(sessionId, packages) ==
  /\ nextTaskId <= MaxTasks
  /\ tasks' = CancelTaskEffect(sessionId)
  /\ storedAtCancel' = CancelTaskHistory(sessionId)
  /\ pendingStarts' = Append(pendingStarts,
                             [id |-> nextTaskId, sessionId |-> sessionId, packages |-> packages])
  /\ nextTaskId' = nextTaskId + 1
  /\ returned' = NoReturn
  /\ UNCHANGED <<mergeVars, pureVars, sinkVars, openaiEnabled, activeTasks, taskResults, progressEvents,
                 updateEvents>>

\* startDescriptionGeneration after the await: the task is created and registered,
\* processDescriptions runs up to its first await, and the task id is returned.
\* Suspended calls resume in the order in which they were suspended.
StartResume ==
  /\ pendingStarts # <<>>
  /\ LET call == Head(pendingStarts)
         begun == ProcessStart(NewTask(call.sessionId, call.packages))
     IN /\ tasks' = [tasks EXCEPT ![call.id] = begun.task]
        /\ activeTasks' = [activeTasks EXCEPT ![call.sessionId] = call.id]
        /\ taskResults' = [taskResults EXCEPT ![call.sessionId] =
                             [present |-> TRUE, map |-> EmptyObject]]
        /\ progressEvents' = [progressEvents EXCEPT ![call.id] = begun.events]
        /\ sent' = WsSend(call.sessionId, ProgressMessages(begun.events))
        /\ returned' = [op |-> "startDescriptionGeneration", sessionId |-> call.sessionId,
                        value |-> call.id]
  /\ pendingStarts' = Tail(pendingStarts)
  /\ UNCHANGED <<mergeVars, pureVars, socket, openaiEnabled, nextTaskId, updateEvents, storedAtCancel>>

\* The description written into the session's record of the package as well.
RecordsWrittenByStore(sessionId, id, description) ==
  [sessions EXCEPT ![sessionId].fields =
     [k \in DOMAIN @ |-> IF sessions[sessionId].packages[k] = id
                         THEN [@[k] EXCEPT !.description = description]
                         ELSE @[k]]]

\* processDescriptions, the store of a description: it goes to task.results and
\* to the taskResults entry; the sessions' package records are as they were.
RecordsAfterStore(sessionId, id, description) == sessions

\* processDescriptions when 'await openaiService.generateDescription' resumes:
\* the result is stored, the update is sent and the pacing delay begins.  When
\* the session has no result object (cleanupTask ran), the store throws, the
\* catch block's own store throws again and the failure handler runs.
GeneratorReturns(t, outcome) ==
  /\ tasks[t].pc = "generating"
  /\ openaiEnabled => pendingStarts = <<>>
  /\ LET task == tasks[t]
         id == CurrentPackage(task)
         description == GeneratedDescriptionOf[openaiEnabled][id][outcome]
         fallbackDescription == FallbackDescriptionOf[id]
     IN IF taskResults[task.sessionId].present
        THEN /\ tasks' = [tasks EXCEPT ![t] =
                            [task EXCEPT !.results = SetKey(task.results, id, description),
                                         !.completed = task.completed + 1,
                                         !.pc = "delay"]]
             /\ taskResults' = [taskResults EXCEPT ![task.sessionId].map =
                                  SetKey(taskResults[task.sessionId].map, id, description)]
             /\ updateEvents' = [updateEvents EXCEPT ![t] =
                                   Append(@, UpdateEvent(task, id, description, FALSE))]
             /\ sent' = WsSend(task.sessionId, << UpdateEvent(task, id, description, FALSE) >>)
             /\ UNCHANGED progressEvents
        ELSE LET failed == FailureHandler(
                             [task EXCEPT !.results = SetKey(task.results, id, fallbackDescription)],
                             TypeErrorMessage)
             IN /\ tasks' = [tasks EXCEPT ![t] = failed.task]
                /\ progressEvents' = [progressEvents EXCEPT ![t] = @ \o failed.events]
                /\ sent' = WsSend(task.sessionId, ProgressMessages(failed.events))
                /\ UNCHANGED <<taskResults, updateEvents>>
  /\ returned' = NoReturn
  /\ sessions' = RecordsAfterStore(tasks[t].sessionId, CurrentPackage(tasks[t]),
                                   GeneratedDescriptionOf[openaiEnabled][CurrentPackage(tasks[t])][outcome])
  /\ UNCHANGED <<pureVars, merged, response, mergeRun, uploadRun, socket, openaiEnabled, activeTasks,
                 nextTaskId, pendingStarts, storedAtCancel>>

\* processDescriptions when 'await openaiService.generateDescription' resumes
\* and the caller's updateCallback throws: the result is stored and counted,
\* the callback is called and throws, and the catch block stores the fallback
\* description, counts the package again and calls the callback again.  When
\* that call returns, the loop goes on with the next package without a delay;
\* when it throws again, the failure handler runs.
UpdateCallbackThrows(t, outcome, again) ==
  /\ tasks[t].pc = "generating"
  /\ openaiEnabled => pendingStarts = <<>>
  /\ taskResults[tasks[t].sessionId].present
  /\ LET task == tasks[t]
         id == CurrentPackage(task)
         description == GeneratedDescriptionOf[openaiEnabled][id][outcome]
         fallbackDescription == FallbackDescriptionOf[id]
         counted == [task EXCEPT !.results = SetKey(task.results, id, fallbackDescription),
                                 !.completed = task.completed + 2]
         after == IF again THEN FailureHandler(counted, "updateCallback failed")
                  ELSE LoopStep([counted EXCEPT !.i = task.i + 1])
     IN /\ tasks' = [tasks EXCEPT ![t] = after.task]
        /\ taskResults' = [taskResults EXCEPT ![task.sessionId].map =
                             SetKey(taskResults[task.sessionId].map, id, fallbackDescription)]
        /\ updateEvents' = [updateEvents EXCEPT ![t] =
                              @ \o << UpdateEvent(task, id, description, FALSE),
                                      UpdateEvent(task, id, fallbackDescription, TRUE) >>]
        /\ progressEvents' = [progressEvents EXCEPT ![t] = @ \o after.events]
  /\ returned' = NoReturn
  /\ UNCHANGED <<mergeVars, pureVars, sinkVars, openaiEnabled, activeTasks, nextTaskId,
                 pendingStarts, storedAtCancel>>

\* processDescriptions when the 100 ms pacing delay ends: i++ and the next turn
\* of the loop.  A timer fires only once no suspended call is left to resume.
DelayEnds(t) ==
  /\ tasks[t].pc = "delay"
  /\ pendingStarts = <<>>
  /\ LET step == LoopStep([tasks[t] EXCEPT !.i = tasks[t].i + 1])
     IN /\ tasks' = [tasks EXCEPT ![t] = step.task]
        /\ progressEvents' = [progressEvents EXCEPT ![t] = @ \o step.events]
        /\ sent' = WsSend(tasks[t].sessionId, ProgressMessages(step.events))
  /\ returned' = NoReturn
  /\ UNCHANGED <<mergeVars, pureVars, socket, openaiEnabled, activeTasks, taskResults, nextTaskId, pendingStarts, updateEvents,
                 storedAtCancel>>

\* cancelTask(sessionId)
CancelTask(sessionId) ==
  /\ tasks' = CancelTaskEffect(sessionId)
  /\ storedAtCancel' = CancelTaskHistory(sessionId)
  /\ returned' = [op |-> "cancelTask", sessionId |-> sessionId,
                  value |-> CancelTaskApplies(sessionId)]
  /\ UNCHANGED <<mergeVars, pureVars, sinkVars, openaiEnabled, activeTasks, taskResults, nextTaskId,
                 pendingStarts, progressEvents, updateEvents>>

\* The task entry deleted and the result entry kept.
CleanupTaskKeepsResults(sessionId) ==
  /\ activeTasks' = [activeTasks EXCEPT ![sessionId] = NoTaskId]
  /\ returned' = NoReturn
  /\ UNCHANGED <<mergeVars, pureVars, sinkVars, openaiEnabled, tasks, nextTaskId, pendingStarts, progressEvents, updateEvents,
                 storedAtCancel, taskResults>>

\* cleanupTask(sessionId)
CleanupTask(sessionId) ==
  /\ activeTasks' = [activeTasks EXCEPT ![sessionId] = NoTaskId]
  /\ taskResults' = [taskResults EXCEPT ![sessionId] = NoEntry]
  /\ returned' = NoReturn
  /\ UNCHANGED <<mergeVars, pureVars, sinkVars, openaiEnabled, tasks, nextTaskId, pendingStarts, progressEvents, updateEvents,
                 storedAtCancel>>

\* A caller reads getTaskStatus(sessionId).
ReadTaskStatus(sessionId) ==
  /\ returned' = [op |-> "getTaskStatus", sessionId |-> sessionId,
                  value |-> GetTaskStatus(sessionId)]
  /\ UNCHANGED <<mergeVars, pureVars, sinkVars, openaiEnabled, activeTasks, taskResults, tasks,
                 nextTaskId, pendingStarts, progressEvents, updateEvents, storedAtCancel>>

\* A caller reads getTaskResults(sessionId).
ReadTaskResults(sessionId) ==
  /\ returned' = [op |-> "getTaskResults", sessionId |-> sessionId,
                  value |-> GetTaskResults(sessionId)]
  /\ UNCHANGED <<mergeVars, pureVars, sinkVars, openaiEnabled, activeTasks, taskResults, tasks,
                 nextTaskId, pendingStarts, progressEvents, updateEvents, storedAtCancel>>

TaskNext ==
  \/ \E s \in Sessions, l \in PackageLists : StartCall(s, l)
  \/ StartResume
  \/ \E t \in TaskIds, o \in GeneratorOutcomes : GeneratorReturns(t, o)
  \/ \E t \in TaskIds : DelayEnds(t)
  \/ \E s \in Sessions : CancelTask(s)
  \/ \E s \in Sessions : CleanupTask(s)

\* ------------------------------------------------------ sessions and merge
MergeInit ==
  /\ sessions = [s \in Sessions |-> NoSession]
  /\ merged = NoMerge
  /\ response = NoResponse
  /\ mergeRun = NoRun
  /\ uploadRun = NoUpload

\* The title, description and error fields of records that are as the parser
\* returned them.
FieldsAsParsed(packages) ==
  [k \in DOMAIN packages |-> [title |-> PackageData(packages[k]).title,
                              description |-> PackageData(packages[k]).description,
                              error |-> PackageData(packages[k]).error]]

\* The title field of the record of a session's list that holds package id.
TitleIn(session, id) ==
  session.fields[CHOOSE k \in DOMAIN session.packages : session.packages[k] = id].title

\* A mergePackages call is between its first and its last await.  The model
\* follows one call at a time.
InFlight == mergeRun.pc \in {"reading", "generating", "writing"}

\* A request that is not a merge begins: the record of a call that has ended is dropped.
OtherRequest ==
  /\ mergeRun' = IF InFlight THEN mergeRun ELSE NoRun
  /\ merged' = IF InFlight THEN merged ELSE NoMerge

\* The fields of the records of a session's list, in the order of the list packages.
FieldsIn(session, packages) ==
  [k \in DOMAIN packages |->
     session.fields[CHOOSE j \in DOMAIN session.packages : session.packages[j] = packages[k]]]

\* POST /api/reorder with a session id and a package list in the body; fields
\* are the title and description fields of the records of that list.
Reorder(sessionId, packages, fields) ==
  /\ sessions' = [sessions EXCEPT ![sessionId] =
                    [present |-> TRUE, packages |-> packages, fields |-> fields]]
  /\ response' = [op |-> "reorder", sessionId |-> sessionId, status |-> 200, error |-> "",
                  downloadUrl |-> FALSE, count |-> 0]
  /\ OtherRequest
  /\ UNCHANGED <<uploadRun, taskVars, pureVars, sinkVars>>

\* mergePackages: one progressCallback argument, progress as the fraction num / den
ProgressEvent(step, num, den) == [step |-> step, num |-> num, den |-> den]

\* The package event computed from the count after the package, not before it.
PackageProgressAfter(titles, processed) ==
  ProgressEvent("Processing package: " \o titles[processed + 1],
                15 * Len(titles) + (processed + 1) * 70, Len(titles))

\* mergePackages, head of the package loop: the event for the package at the
\* 0-based index processed of the list with these title fields,
\* 15 + (processedPackages / packages.length) * 70
PackageProgress(titles, processed) ==
  ProgressEvent("Processing package: " \o titles[processed + 1],
                15 * Len(titles) + processed * 70, Len(titles))

\* mergePackages from the head of the package loop to the next await: the read
\* of the next package's archive, or the generation of the merged archive.
LoopHead(run) ==
  IF run.processed < Len(run.packages)
  THEN [run EXCEPT !.pc = "reading",
                   !.progress = Append(@, PackageProgress(run.titles, run.processed))]
  ELSE [run EXCEPT !.pc = "generating",
                   !.progress = Append(@, ProgressEvent("Generating final package", 90, 1))]

\* mergePackages from its first line to its first await.  stored is the session's
\* package list at the time of the request (history; empty for a direct call),
\* titles the title fields of the records of packages.
BeginRun(caller, sessionId, stored, packages, titles) ==
  LoopHead([pc |-> "reading", caller |-> caller, sessionId |-> sessionId, stored |-> stored,
            packages |-> packages, titles |-> titles, processed |-> 0,
            progress |-> << ProgressEvent("Creating merged manifest", 5, 1),
                            ProgressEvent("Creating course menu", 10, 1) >>,
            written |-> FALSE, error |-> ""])

\* What the progress callback of /api/merge sends for the events added to the
\* log: { type: 'progress', progress }.  A direct caller's callback sends nothing.
MergeSent(run) ==
  IF run.caller = "api"
  THEN WsSend(run.sessionId,
              [k \in 1..(Len(run.progress) - Len(mergeRun.progress)) |-> [type |-> "progress"]])
  ELSE sent

\* A rejected call answered like a completed one.
MergeFailedSilently(run, message) ==
  /\ mergeRun' = [run EXCEPT !.pc = "failed", !.error = message]
  /\ response' = IF run.caller = "api"
                 THEN [op |-> "merge", sessionId |-> run.sessionId, status |-> 200,
                       error |-> "", downloadUrl |-> TRUE, count |-> 0]
                 ELSE response

\* The catch block of /api/merge: res.status(500).json({ error: error.message })
MergeFailed(run, message) ==
  /\ mergeRun' = [run EXCEPT !.pc = "failed", !.error = message]
  /\ response' = IF run.caller = "api"
                 THEN [op |-> "merge", sessionId |-> run.sessionId, status |-> 500,
                       error |-> message, downloadUrl |-> FALSE, count |-> 0]
                 ELSE response

\* POST /api/merge with a session id in the body, up to the first await of
\* mergePackages: the session is created when it is missing, the packages
\* without error are filtered out of it into a new list, sorted and handed to
\* mergePackages.  Without a valid package the answer is 400.
Merge(sessionId) ==
  LET session == IF sessions[sessionId].present THEN sessions[sessionId]
                 ELSE [present |-> TRUE, packages |-> <<>>, fields |-> <<>>]
      validPackages == ValidPackages(session.packages)
      sorted == SortedOf[validPackages]
      run == BeginRun("api", sessionId, session.packages, sorted,
                      [k \in DOMAIN sorted |-> TitleIn(session, sorted[k])])
  IN /\ ~InFlight
     /\ sessions' = [sessions EXCEPT ![sessionId] = session]
     /\ IF Len(validPackages) = 0
        THEN /\ response' = [op |-> "merge", sessionId |-> sessionId, status |-> 400,
                             error |-> "No valid SCORM packages to merge",
                             downloadUrl |-> FALSE, count |-> 0]
             /\ UNCHANGED <<mergeRun, merged, sent>>
        ELSE /\ mergeRun' = run
             /\ merged' = NoMerge
             /\ sent' = MergeSent(run)
             /\ response' = NoResponse
     /\ UNCHANGED <<uploadRun, socket, taskVars, pureVars>>

\* scormProcessor.mergePackages called directly with a package list, up to its
\* first await.
MergePackagesCall(packages) ==
  /\ ~InFlight
  /\ mergeRun' = BeginRun("direct", "", <<>>, packages,
                          [k \in DOMAIN packages |-> PackageData(packages[k]).title])
  /\ merged' = NoMerge
  /\ response' = NoResponse
  /\ UNCHANGED <<sessions, uploadRun, taskVars, pureVars, sinkVars>>

\* mergePackages when the archive of the current package has been read, opened
\* and copied (readable), or could not be read or opened: the call is rejected
\* with that error and /api/merge answers 500.
PackageRead(readable) ==
  /\ mergeRun.pc = "reading"
  /\ IF readable
     THEN LET run == LoopHead([mergeRun EXCEPT !.processed = @ + 1])
          IN /\ mergeRun' = run
             /\ sent' = MergeSent(run)
             /\ UNCHANGED response
     ELSE /\ MergeFailed(mergeRun, "ENOENT: no such file or directory")
          /\ UNCHANGED sent
  /\ UNCHANGED <<sessions, merged, uploadRun, socket, taskVars, pureVars>>

\* mergePackages when mergedZip.generateAsync has produced the buffer: the
\* write of the output file begins.
ArchiveGenerated ==
  /\ mergeRun.pc = "generating"
  /\ mergeRun' = [mergeRun EXCEPT !.pc = "writing"]
  /\ UNCHANGED <<sessions, merged, response, uploadRun, taskVars, pureVars, sinkVars>>

\* mergePackages when fs.writeFile has ended: after a completed write the last
\* progress event is emitted, the path is returned and /api/merge answers with
\* the download URL; a failed write rejects the call.
WriteReturns(writable) ==
  /\ mergeRun.pc = "writing"
  /\ IF writable
     THEN LET run == [mergeRun EXCEPT !.written = TRUE, !.pc = "done",
                                      !.progress = Append(@, ProgressEvent("Complete", 100, 1))]
          IN /\ mergeRun' = run
             /\ sent' = MergeSent(run)
             /\ merged' = [called |-> TRUE, packages |-> mergeRun.packages]
             /\ response' = IF mergeRun.caller = "api"
                            THEN [op |-> "merge", sessionId |-> mergeRun.sessionId,
                                  status |-> 200, error |-> "", downloadUrl |-> TRUE, count |-> 0]
                            ELSE response
     ELSE /\ MergeFailed(mergeRun, "ENOSPC: no space left on device")
          /\ UNCHANGED <<merged, sent>>
  /\ UNCHANGED <<sessions, uploadRun, socket, taskVars, pureVars>>

\* ------------------------------------------------------------------ upload
\* validateAndParsePackage finds the manifest at the root of the file's archive.
HasRootManifest(id) ==
  \E k \in DOMAIN ArchiveOf(PackageData(id).path) :
    ArchiveOf(PackageData(id).path)[k].name = "imsmanifest.xml"

\* scormProcessor.getFallbackDescription(packageData), called by /api/upload:
\* the rule-based description of the package.
ScormFallbackDescription(id) == FallbackDescriptionOf[id]

\* /api/upload, catch block: the title of the error record,
\* getDisplayTitle of the record with the default title
ErrorTitle(pkg) == GetDisplayTitle(pkg)

\* The record of a file whose parse failed pushed without its error field.
UploadedRecordUnmarked(id) ==
  IF HasRootManifest(id)
  THEN [id |-> id, title |-> GetDisplayTitle(PackageData(id)),
        description |-> ScormFallbackDescription(id), error |-> ""]
  ELSE [id |-> id, title |-> "Untitled SCORM Package",
        description |-> "Error processing SCORM package", error |-> ""]

\* /api/upload, loop body: the record pushed for one uploaded file.  The parse
\* of file id returns PackageData(id) when the archive has a root manifest.
UploadedRecord(id) ==
  IF HasRootManifest(id)
  THEN [id |-> id, title |-> GetDisplayTitle(PackageData(id)),
        description |-> ScormFallbackDescription(id), error |-> ""]
  ELSE [id |-> id,
        title |-> ErrorTitle([title |-> "Untitled SCORM Package",
                              filename |-> PackageData(id).filename]),
        description |-> "Error processing SCORM package",
        error |-> "Invalid SCORM package: " \o "No imsmanifest.xml found at root level"]

UploadedRecordOf == [id \in PackageIds |-> UploadedRecord(id)]

\* The file lists of an upload request: distinct files, none included.
UploadLists == { l \in MergeLists : Len(l) <= MaxUploadFiles }

\* POST /api/upload with a session id and files, up to the first await: the
\* session is created when it is missing; without files the answer is 400.
\* The model follows one upload at a time.
Upload(sessionId, files) ==
  /\ uploadRun.pc = "idle"
  /\ sessions' = [sessions EXCEPT ![sessionId] =
                    IF @.present THEN @
                    ELSE [present |-> TRUE, packages |-> <<>>, fields |-> <<>>]]
  /\ IF files = <<>>
     THEN /\ response' = [op |-> "upload", sessionId |-> sessionId, status |-> 400,
                          error |-> "No files uploaded", downloadUrl |-> FALSE, count |-> 0]
          /\ UNCHANGED uploadRun
     ELSE /\ uploadRun' = [pc |-> "parsing", sessionId |-> sessionId, files |-> files,
                           packages |-> <<>>]
          /\ response' = NoResponse
  /\ OtherRequest
  /\ UNCHANGED <<taskVars, pureVars, sinkVars>>

\* /api/upload when validateAndParsePackage has returned or thrown for the
\* next file: its record is pushed; after the last file the records are sorted
\* by display title, stored as the session's list and returned.
FileParsed ==
  LET sessionId == uploadRun.sessionId
      packages == Append(uploadRun.packages, uploadRun.files[Len(uploadRun.packages) + 1])
      sorted == SortedOf[packages]
  IN /\ uploadRun.pc = "parsing"
     /\ IF Len(packages) < Len(uploadRun.files)
        THEN /\ uploadRun' = [uploadRun EXCEPT !.packages = packages]
             /\ UNCHANGED <<sessions, response>>
        ELSE /\ uploadRun' = NoUpload
             /\ sessions' = [sessions EXCEPT ![sessionId] =
                   [present |-> TRUE, packages |-> sorted,
                    fields |-> [k \in DOMAIN sorted |->
                                 [title |-> UploadedRecordOf[sorted[k]].title,
                                  description |-> UploadedRecordOf[sorted[k]].description,
                                  error |-> UploadedRecordOf[sorted[k]].error]]]]
             /\ response' = [op |-> "upload", sessionId |-> sessionId, status |-> 200,
                             error |-> "", downloadUrl |-> FALSE, count |-> Len(sorted)]
     /\ UNCHANGED <<merged, mergeRun, taskVars, pureVars, sinkVars>>

\* No request is being handled.
Quiet == ~InFlight /\ uploadRun.pc = "idle"

\* The list holds the records of the session's list, each once, in some order.
Rearranges(packages, session) ==
  /\ Len(packages) = Len(session.packages)
  /\ \A k \in DOMAIN packages : \E j \in DOMAIN session.packages : session.packages[j] = packages[k]

\* The requests of one client that awaits each response before its next
\* request and reorders the records it was sent.
UploadNext ==
  \/ \E s \in Sessions, l \in UploadLists : Quiet /\ Upload(s, l)
  \/ FileParsed
  \/ \E s \in Sessions, l \in MergeLists :
       /\ Quiet /\ l # <<>> /\ Rearranges(l, sessions[s])
       /\ Reorder(s, l, FieldsIn(sessions[s], l))
  \/ \E s \in Sessions : Quiet /\ Merge(s)
  \/ \E readable \in BOOLEAN : PackageRead(readable)
  \/ ArchiveGenerated
  \/ \E writable \in BOOLEAN : WriteReturns(writable)

MergeNext ==
  \/ \E s \in Sessions, l \in MergeLists : Reorder(s, l, FieldsAsParsed(l))
  \/ \E s \in Sessions : Merge(s)
  \/ \E l \in MergeLists : MergePackagesCall(l)
  \/ \E readable \in BOOLEAN : PackageRead(readable)
  \/ ArchiveGenerated
  \/ \E writable \in BOOLEAN : WriteReturns(writable)

\* No session has a WebSocket: the sessions are those /api/reorder and /api/merge
\* create, and the task manager is called with callbacks of such a session.
SinkInit ==
  /\ socket = [s \in Sessions |-> "absent"]
  /\ sent = [s \in Sessions |-> {}]

\* Number of fragments a document is made of.
MaxFragments == 3

\* The pieces documents are made of: the three closing tags the injection
\* looks for, one of them in capitals as well, markup, and an invalid byte.
Fragments == {"</head>", "</body>", "</html>", "</HEAD>", "<p>Hi</p>", InvalidByte}

RECURSIVE Concat(_)
Concat(pieces) == IF pieces = <<>> THEN "" ELSE Head(pieces) \o Concat(Tail(pieces))

Documents == { Concat(pieces) : pieces \in UNION { [1..n -> Fragments] : n \in 0..MaxFragments } }

FileNames == {"index.html", "PAGE.HTM", "script.js"}

\* One file of an input archive goes through the copy loop of mergePackages.
CopyFile ==
  /\ applied.op = "copy" /\ ~applied.done
  /\ applied' = [applied EXCEPT !.done = TRUE,
                              !.output = CopiedContent(applied.name, applied.input)]
  /\ UNCHANGED <<taskVars, mergeVars, sinkVars>>

\* Number of characters of a text handed to escapeXml.
MaxTextLen == 3

\* The five characters escapeXml replaces, and letters and digits, among them
\* those the entity names are made of.
XmlChars == {"&", "<", ">", "\"", "'", "a", "m", "p", "Q", "9"}

Texts == { Concat(pieces) : pieces \in UNION { [1..n -> XmlChars] : n \in 0..MaxTextLen } }

\* escapeXml is applied to a text.
EscapeText ==
  /\ applied.op = "escapeXml" /\ ~applied.done
  /\ applied' = [applied EXCEPT !.done = TRUE, !.output = EscapeXml(applied.input)]
  /\ UNCHANGED <<taskVars, mergeVars, sinkVars>>

vars == <<taskVars, mergeVars, sinkVars, pureVars>>
Init == TaskInit /\ MergeInit /\ SinkInit /\ PureInit

CopyInit ==
  /\ TaskInit /\ MergeInit /\ SinkInit
  /\ applied \in { [op |-> "copy", name |-> n, input |-> d, done |-> FALSE, output |-> ""] :
                 n \in FileNames, d \in Documents }

EscapeInit ==
  /\ TaskInit /\ MergeInit /\ SinkInit
  /\ applied \in { [op |-> "escapeXml", name |-> "", input |-> t, done |-> FALSE, output |-> ""] :
                 t \in Texts }

PureNext == CopyFile \/ EscapeText

\* The functions of the ScormProcessor applied to inputs drawn at the start.
SpecPure == (CopyInit \/ EscapeInit) /\ [][PureNext]_vars
Next == TaskNext
Spec == Init /\ [][Next]_vars

\* ------------------------------------------------- the pipeline with a sink
\* Number of startDescriptionGeneration calls in a behaviour of SpecLive.
MaxLiveTasks == 1

\* The task ids SpecLive hands out.
LiveTaskIds == 1..MaxLiveTasks

\* The session's WebSocket is in any state when the first request arrives.
LiveInit ==
  /\ TaskInit
  /\ MergeInit
  /\ PureInit
  /\ socket \in [Sessions -> SocketStates]
  /\ sent = [s \in Sessions |-> {}]

\* ws.on('close'): the socket is no longer open and the session is deleted.
SocketCloses(sessionId) ==
  /\ socket[sessionId] = "open"
  /\ socket' = [socket EXCEPT ![sessionId] = "closed"]
  /\ sessions' = [sessions EXCEPT ![sessionId] = NoSession]
  /\ UNCHANGED <<taskVars, pureVars, merged, response, mergeRun, uploadRun, sent>>

LiveNext ==
  \/ \E s \in Sessions, l \in PackageLists : nextTaskId <= MaxLiveTasks /\ StartCall(s, l)
  \/ StartResume
  \/ \E t \in TaskIds, o \in GeneratorOutcomes : GeneratorReturns(t, o)
  \/ \E t \in TaskIds : DelayEnds(t)
  \/ \E s \in Sessions : CancelTask(s)
  \/ \E s \in Sessions : CleanupTask(s)
  \/ \E s \in Sessions : SocketCloses(s)

\* The steps the event loop takes on its own: a suspended call resumes, a
\* generator call returns, a timer fires.
PipelineStep ==
  \/ StartResume
  \/ \E t \in TaskIds, o \in GeneratorOutcomes : GeneratorReturns(t, o)
  \/ \E t \in TaskIds : DelayEnds(t)

\* The event loop does not stop while such a step is possible.
SpecLive == LiveInit /\ [][LiveNext]_vars /\ WF_vars(PipelineStep)

\* The task manager with callers that read the status and the results
\* between its steps.
ReadNext ==
  \/ \E s \in Sessions, l \in PackageLists : nextTaskId <= MaxLiveTasks /\ StartCall(s, l)
  \/ StartResume
  \/ \E t \in TaskIds, o \in GeneratorOutcomes : GeneratorReturns(t, o)
  \/ \E t \in TaskIds : DelayEnds(t)
  \/ \E s \in Sessions : CancelTask(s)
  \/ \E s \in Sessions : CleanupTask(s)
  \/ \E s \in Sessions : ReadTaskStatus(s)
  \/ \E s \in Sessions : ReadTaskResults(s)

SpecReads == Init /\ [][ReadNext]_vars

\* The task manager called with an item-update callback that may throw.
CallbackNext ==
  \/ \E s \in Sessions, l \in PackageLists : nextTaskId <= MaxLiveTasks /\ StartCall(s, l)
  \/ StartResume
  \/ \E t \in TaskIds, o \in GeneratorOutcomes : GeneratorReturns(t, o)
  \/ \E t \in TaskIds, o \in GeneratorOutcomes, again \in BOOLEAN :
       UpdateCallbackThrows(t, o, again)
  \/ \E t \in TaskIds : DelayEnds(t)
  \/ \E s \in Sessions : CancelTask(s)
  \/ \E s \in Sessions : CleanupTask(s)

SpecCallbacks == Init /\ [][CallbackNext]_vars

\* The session and merge path on its own.
SpecMerge == Init /\ [][MergeNext]_vars

\* A session's list is stored, then one description task over its valid
\* packages and /api/merge requests run side by side.  /api/descriptions/start
\* hands startDescriptionGeneration the session's packages without error.
BothNext ==
  \/ \E s \in Sessions, l \in MergeLists :
       /\ ~sessions[s].present /\ Len(l) = MaxMergeLen
       /\ Reorder(s, l, FieldsAsParsed(l))
  \/ \E s \in Sessions :
       /\ sessions[s].present /\ ValidPackages(sessions[s].packages) # <<>>
       /\ activeTasks[s] = NoTaskId /\ pendingStarts = <<>>
       /\ StartCall(s, ValidPackages(sessions[s].packages))
  \/ StartResume
  \/ \E t \in TaskIds, o \in GeneratorOutcomes : GeneratorReturns(t, o)
  \/ \E t \in TaskIds : DelayEnds(t)
  \/ \E s \in Sessions : Merge(s)
  \/ \E readable \in BOOLEAN : PackageRead(readable)
  \/ ArchiveGenerated
  \/ \E writable \in BOOLEAN : WriteReturns(writable)

SpecBoth == LiveInit /\ [][BothNext]_vars

\* Upload, reorder and merge requests of the HTTP layer.
SpecUpload == Init /\ [][UploadNext]_vars

\* ------------------------------------------------------------------ claims
RunningTasks(sessionId) ==
  { t \in TaskIds : tasks[t].sessionId = sessionId /\ tasks[t].status = "running" }

\* The tasks of a session whose request to the external generator is in flight.
CallsInFlight(sessionId) ==
  { t \in TaskIds : /\ tasks[t].sessionId = sessionId
                    /\ tasks[t].pc = "generating"
                    /\ openaiEnabled }

CountEvents(t, type) ==
  Cardinality({ k \in DOMAIN progressEvents[t] : progressEvents[t][k].type = type })

\* scormProcessor.generateDescription: 'description.trim().length > 10'
SubstantialPackages ==
  { id \in PackageIds : Len(Trim(PackageData(id).description)) > 10 }

\* C1: at every moment each session has at most one task with status 'running'.
C1_AtMostOneRunningTask ==
  \A s \in Sessions : Cardinality(RunningTasks(s)) <= 1

\* C2: cancelTask(s) returns true exactly when the session's task is running;
\* after it returned true getTaskStatus(s) reports 'cancelled', and it keeps
\* reporting 'cancelled' in every later state for as long as no
\* startDescriptionGeneration(s) or cleanupTask(s) replaces or removes the task.
C2_CancelTaskContract ==
  [][\A s \in Sessions :
       /\ (returned'.op = "cancelTask" /\ returned'.sessionId = s)
            => /\ returned'.value = (GetTaskStatus(s).status = "running")
               /\ returned'.value
                    => /\ activeTasks'[s] # NoTaskId
                       /\ tasks'[activeTasks'[s]].status = "cancelled"
       /\ (/\ activeTasks[s] # NoTaskId
           /\ tasks[activeTasks[s]].status = "cancelled"
           /\ activeTasks'[s] = activeTasks[s])
            => tasks'[activeTasks'[s]].status = "cancelled"]_vars

\* C2 witness: a task that cancelTask cancelled while its generator call was in
\* flight has stored that call's result, its loop has ended, and it is still the
\* session's task, reported as 'cancelled'.
C2_Witness ==
  \E s \in Sessions :
    /\ activeTasks[s] # NoTaskId
    /\ LET t == activeTasks[s]
       IN /\ tasks[t].status = "cancelled"
          /\ tasks[t].pc = "done"
          /\ storedAtCancel[t] >= 0
          /\ Cardinality(DOMAIN tasks[t].results) = storedAtCancel[t] + 1

\* The package a manifest item or a menu entry shows: the one with that title.
PackageOfTitle(escapedTitle) ==
  CHOOSE id \in PackageIds : EscapeXml(DisplayTitleOf[id]) = escapedTitle

\* The names of the merged archive's entries below a folder.
EntriesBelow(entries, folder) ==
  { entries[k].name : k \in { j \in DOMAIN entries :
      SubSeq(entries[j].name, 1, Len(folder) + 1) = folder \o "/" } }

\* The names an uploaded archive contributes: its files but the root manifest.
ContentNames(id) ==
  LET files == ArchiveOf(PackageData(id).path)
  IN { files[k].name : k \in { j \in DOMAIN files :
         files[j].name # "imsmanifest.xml" /\ ~files[j].dir } }

\* C3: for the list mergePackages was given, the k-th package item and resource
\* of the merged manifest, the folder package_k of the archive and the k-th menu
\* entry all belong to the k-th package of that list, and there are no others.
C3_MergeKeepsGivenOrder ==
  merged.called =>
    LET given == merged.packages
        out == MergedOutput
    IN /\ Len(out.manifest.items) = Len(given) + 1
       /\ Len(out.manifest.resources) = Len(given) + 1
       /\ Len(out.menu.entries) = Len(given)
       /\ \A k \in DOMAIN given :
            LET number == NumberToString(k)
            IN /\ out.manifest.items[k + 1].identifier = "item_" \o number
               /\ out.manifest.items[k + 1].identifierref = "resource_pkg_" \o number
               /\ PackageOfTitle(out.manifest.items[k + 1].title) = given[k]
               /\ out.manifest.resources[k + 1].identifier = "resource_pkg_" \o number
               /\ out.manifest.resources[k + 1].href =
                    "package_" \o number \o "/" \o MainHref(PackageData(given[k]))
               /\ out.menu.entries[k].dataPackage = k
               /\ PackageOfTitle(out.menu.entries[k].title) = given[k]
               /\ out.menu.entries[k].filename = PackageData(given[k]).filename
               /\ EntriesBelow(out.entries, "package_" \o number) =
                    { "package_" \o number \o "/" \o name : name \in ContentNames(given[k]) }
       /\ \A e \in DOMAIN out.entries :
            \E k \in DOMAIN given :
              out.entries[e].name \in EntriesBelow(out.entries, "package_" \o NumberToString(k))

\* C3 witness: mergePackages was given two packages in an order that is not
\* the alphabetical order of their titles, and produced their two folders.
C3_Witness ==
  /\ merged.called
  /\ Len(merged.packages) = 2
  /\ SortedOf[merged.packages] # merged.packages
  /\ EntriesBelow(MergedOutput.entries, "package_2") # {}

\* The packages of the merged manifest, in the order of its items.
ManifestOrder(manifest) ==
  [k \in 1..(Len(manifest.items) - 1) |-> PackageOfTitle(manifest.items[k + 1].title)]

\* C4: when /api/merge answers with a merged package, the packages of its
\* manifest are the session's packages without error in the order in which
\* /api/reorder stored them.
C4_MergeFollowsStoredOrder ==
  [][\A s \in Sessions :
       (response'.op = "merge" /\ response'.sessionId = s /\ response'.status = 200)
         => ManifestOrder(MergedOutputOf[merged'.packages].manifest) = ValidPackages(mergeRun'.stored)]_vars

\* C5: within one session at most one request to the external generator is in
\* flight at any time.
C5_OneCallInFlight ==
  \A s \in Sessions : Cardinality(CallsInFlight(s)) <= 1

\* C6: a task that cancelTask cancelled while it was running has, once it has
\* stopped, emitted exactly one 'cancelled' progress event and no 'completed'
\* one.  Stated for the tasks that are still their session's registered task
\* with its result object in place (no cleanupTask, no later start).
C6_CancelledTaskEmitsCancelled ==
  \A t \in TaskIds :
    (/\ tasks[t].cancelled /\ tasks[t].pc = "done"
     /\ activeTasks[tasks[t].sessionId] = t
     /\ taskResults[tasks[t].sessionId].present)
      => CountEvents(t, "cancelled") = 1 /\ CountEvents(t, "completed") = 0

\* C7: a package with a substantial existing description never has a request to
\* the external generator in flight, and the result stored and emitted for it is
\* that description.
C7_ExistingDescriptionWins ==
  \A t \in TaskIds :
    /\ (tasks[t].pc = "generating" /\ openaiEnabled)
         => CurrentPackage(tasks[t]) \notin SubstantialPackages
    /\ \A id \in DOMAIN tasks[t].results \cap SubstantialPackages :
         tasks[t].results[id] = PackageData(id).description
    /\ \A k \in DOMAIN updateEvents[t] :
         updateEvents[t][k].packageId \in SubstantialPackages
           => updateEvents[t][k].description = PackageData(updateEvents[t][k].packageId).description

\* C8: no task becomes 'failed' (no step of the model raises an error outside
\* the per-package loop).
C8_NoTaskFails ==
  \A t \in TaskIds : tasks[t].status # "failed"

\* C9: once cancelTask has cancelled a task, the task starts no generator call,
\* stores at most one result more than it had stored at the cancel, stores it only
\* as the return of the call that was in flight, and stops at its next loop check.
C9_CancelBoundedByOneItem ==
  [][\A t \in TaskIds :
       tasks[t].cancelled =>
         /\ tasks'[t].pc = "generating" => (tasks[t].pc = "generating" /\ tasks'[t].i = tasks[t].i)
         /\ tasks'[t].results # tasks[t].results => tasks[t].pc = "generating"
         /\ Cardinality(DOMAIN tasks'[t].results) <= storedAtCancel'[t] + 1
         /\ tasks[t].pc = "delay" => tasks'[t].pc \in {"delay", "done"}
         /\ tasks[t].pc = "done" => tasks'[t] = tasks[t]]_vars

\* C9 witness: a cancelled task has stored the result of the call that was in
\* flight at the cancel and has stopped, with a package left unprocessed.
C9_Witness ==
  \E t \in TaskIds :
    /\ tasks[t].cancelled /\ tasks[t].pc = "done"
    /\ Cardinality(DOMAIN tasks[t].results) = storedAtCancel[t] + 1
    /\ tasks[t].completed < tasks[t].total

\* C10: while a cancelled task stays the session's task, every entry it has
\* stored is still returned unchanged by getTaskResults.
C10_CancelledResultsKept ==
  [][\A s \in Sessions :
       (/\ activeTasks[s] # NoTaskId
        /\ tasks[activeTasks[s]].status = "cancelled"
        /\ activeTasks'[s] = activeTasks[s])
         => \A id \in DOMAIN tasks[activeTasks[s]].results :
              (id \in DOMAIN GetTaskResults(s)
                 /\ GetTaskResults(s)[id] = tasks[activeTasks[s]].results[id])
                => /\ taskResults'[s].present
                   /\ id \in DOMAIN taskResults'[s].map
                   /\ taskResults'[s].map[id] = GetTaskResults(s)[id]]_vars

\* The task is no longer the one the claim speaks of: it was cancelled, or it
\* was replaced by a later start or removed by cleanupTask.
Disturbed(t) ==
  \/ tasks[t].cancelled
  \/ tasks[t].sessionId \in Sessions /\ activeTasks[tasks[t].sessionId] # t

\* C11: when every generator call returns, a running task that is never
\* cancelled, replaced or cleaned up eventually has status 'completed' with
\* completed = total, and the last progress event it emitted is 'completed'
\* with progress 100, whatever the state of the session's WebSocket.
C11_UndisturbedTaskCompletes ==
  \A t \in LiveTaskIds :
    (tasks[t].status = "running")
      ~> (\/ Disturbed(t)
          \/ /\ tasks[t].status = "completed"
             /\ tasks[t].completed = tasks[t].total
             /\ progressEvents[t] # <<>>
             /\ progressEvents[t][Len(progressEvents[t])] = [type |-> "completed", progress |-> 100])

\* C11 witness: an undisturbed task has completed two packages although the
\* WebSocket was not open, and nothing was sent.
C11_Witness ==
  \E t \in TaskIds :
    /\ tasks[t].status = "completed" /\ ~Disturbed(t)
    /\ tasks[t].total = 2 /\ tasks[t].completed = 2
    /\ socket[tasks[t].sessionId] = "closed"
    /\ sent[tasks[t].sessionId] = {}

TerminalStatuses == {"completed", "cancelled", "failed"}

\* C12: a task object is created with status 'running'; the status changes at
\* most once, to 'completed', 'cancelled' or 'failed', and no step changes a
\* status that is one of these three.
C12_StatusChangesOnce ==
  [][/\ \A s \in Sessions, l \in PackageLists : NewTask(s, l).status = "running"
     /\ \A t \in TaskIds :
          /\ tasks[t].status \in TerminalStatuses => tasks'[t].status = tasks[t].status
          /\ tasks[t].status = "running" => tasks'[t].status \in TerminalStatuses \cup {"running"}]_vars

\* C12 witness: cancelTask was called on a task that had completed two
\* packages; it returned false and the task is still 'completed'.
C12_Witness ==
  \E s \in Sessions :
    /\ returned = [op |-> "cancelTask", sessionId |-> s, value |-> FALSE]
    /\ activeTasks[s] # NoTaskId
    /\ tasks[activeTasks[s]].status = "completed"
    /\ tasks[activeTasks[s]].completed = 2

\* The progress value of event e is the number value.
ProgressIs(e, value) == e.num = value * e.den

\* The progress value of event e is at most that of event f.
ProgressAtMost(e, f) == e.num * f.den <= f.num * e.den

\* C13: a mergePackages call over n packages that succeeds has emitted the
\* progress values 5, 10, then 15 + 70 * i / n for i = 0 .. n-1, then 90, then
\* 100, and nothing else; at every moment of every call the values emitted so
\* far are non-decreasing, the per-package values lie between 15 and 85, and
\* 100 has been emitted only once the output archive is written.
C13_MergeProgressSequence ==
  LET n == Len(mergeRun.packages)
      p == mergeRun.progress
  IN /\ mergeRun.pc = "done" =>
          /\ Len(p) = n + 4
          /\ ProgressIs(p[1], 5) /\ ProgressIs(p[2], 10)
          /\ \A i \in 0..(n - 1) : n * p[3 + i].num = (15 * n + 70 * i) * p[3 + i].den
          /\ ProgressIs(p[n + 3], 90) /\ ProgressIs(p[n + 4], 100)
     /\ \A k \in 1..(Len(p) - 1) : ProgressAtMost(p[k], p[k + 1])
     /\ \A k \in DOMAIN p :
          (k > 2 /\ k <= n + 2) => /\ 15 * p[k].den <= p[k].num
                                   /\ p[k].num <= 85 * p[k].den
     /\ (\E k \in DOMAIN p : ProgressIs(p[k], 100)) => mergeRun.written

\* A merge of two packages requested over /api/merge has succeeded.
C13_Witness ==
  /\ mergeRun.pc = "done" /\ mergeRun.caller = "api"
  /\ Len(mergeRun.packages) = 2
  /\ Len(mergeRun.progress) = 6
  /\ mergeRun.progress[4].num = 100 /\ mergeRun.progress[4].den = 2

\* The mergePackages call of mergeRun was rejected while reading an input archive.
ReadFailed(run) == run.pc = "failed" /\ run.processed < Len(run.packages)

\* C14: when an input archive cannot be read or opened, mergePackages fails
\* with that error: no output archive is written, neither progress 90 nor 100
\* is emitted, then or later, and /api/merge answers with status 500, the
\* error's message and no download URL.
C14_ReadFailureFailsMerge ==
  [][ReadFailed(mergeRun') =>
       /\ ~mergeRun'.written
       /\ merged' = NoMerge
       /\ mergeRun'.error = "ENOENT: no such file or directory"
       /\ \A k \in DOMAIN mergeRun'.progress :
            /\ ~ProgressIs(mergeRun'.progress[k], 90)
            /\ ~ProgressIs(mergeRun'.progress[k], 100)
       /\ (mergeRun.pc = "reading" /\ mergeRun.caller = "api") =>
            response' = [op |-> "merge", sessionId |-> mergeRun.sessionId, status |-> 500,
                         error |-> "ENOENT: no such file or directory",
                         downloadUrl |-> FALSE, count |-> 0]]_vars

\* The second of two packages of a merge requested over /api/merge could not be read.
C14_Witness ==
  /\ ReadFailed(mergeRun) /\ mergeRun.caller = "api"
  /\ mergeRun.processed = 1 /\ Len(mergeRun.packages) = 2
  /\ response.op = "merge" /\ response.status = 500

\* The names of the entries of the archive a mergePackages call wrote.
ArchiveNames(out) ==
  { out.files[k] : k \in DOMAIN out.files } \cup { out.entries[k].name : k \in DOMAIN out.entries }

\* C15: the archive mergePackages writes for a non-empty list holds exactly the
\* root imsmanifest.xml, menu/index.html, menu/menu.js, menu/style.css and,
\* for the k-th input package, one entry package_k/<path> per entry of that
\* package's archive that is neither a directory nor the root imsmanifest.xml;
\* each name occurs once and each input package has exactly its folder package_k.
C15_ArchiveEntries ==
  (merged.called /\ merged.packages # <<>>) =>
    LET given == merged.packages
        out == MergedOutput
        folder(k) == "package_" \o NumberToString(k)
    IN /\ ArchiveNames(out) =
            {"imsmanifest.xml", "menu/index.html", "menu/menu.js", "menu/style.css"}
            \cup UNION { { folder(k) \o "/" \o name : name \in ContentNames(given[k]) } :
                         k \in DOMAIN given }
       /\ Cardinality(ArchiveNames(out)) = Len(out.files) + Len(out.entries)
       /\ \A k \in DOMAIN given : EntriesBelow(out.entries, folder(k)) # {}
       /\ \A e \in DOMAIN out.entries :
            Cardinality({ k \in DOMAIN given :
                            out.entries[e].name \in EntriesBelow(out.entries, folder(k)) }) = 1

\* An archive was written for two packages, one of which holds a directory
\* entry and a root manifest that are not copied.
C15_Witness ==
  /\ merged.called /\ Len(merged.packages) = 2 /\ merged.packages[2] = "pkgB"
  /\ "package_2/img/logo.png" \in ArchiveNames(MergedOutput)
  /\ Cardinality(ArchiveNames(MergedOutput)) = 7

\* The packages of a list whose record has no error field.
WithoutError(packages) == { packages[k] : k \in { j \in DOMAIN packages : ~HasError(packages[j]) } }

\* C16: whatever uploads, reorders and merges came before, a /api/merge request
\* hands mergePackages exactly the records of the session's list that have no
\* error, and calls it only when there is one; when there is none (a session
\* id unknown until then included, whose session is created empty) it answers
\* 400 'No valid SCORM packages to merge', calls nothing and writes no archive.
C16_MergeTakesValidPackagesOnly ==
  [][\A s \in Sessions :
       Merge(s) =>
         IF WithoutError(sessions[s].packages) = {}
         THEN /\ response' = [op |-> "merge", sessionId |-> s, status |-> 400,
                              error |-> "No valid SCORM packages to merge",
                              downloadUrl |-> FALSE, count |-> 0]
              /\ sessions'[s].present /\ sessions'[s].packages = sessions[s].packages
              /\ mergeRun' = mergeRun /\ ~InFlight'
              /\ merged' = merged
         ELSE /\ InFlight' /\ mergeRun'.caller = "api" /\ mergeRun'.sessionId = s
              /\ { mergeRun'.packages[k] : k \in DOMAIN mergeRun'.packages }
                   = WithoutError(sessions[s].packages)
              /\ Len(mergeRun'.packages) = Cardinality(WithoutError(sessions[s].packages))]_vars

\* A merge was refused for a session whose list, stored by an upload, holds
\* nothing but the record of a file that could not be parsed.
C16_Witness ==
  \E s \in Sessions :
    /\ response.op = "merge" /\ response.sessionId = s /\ response.status = 400
    /\ sessions[s].packages = <<"pkgE">>
    /\ sessions[s].fields[1].description = "Error processing SCORM package"
    /\ ~merged.called

\* C17: an upload of N files stores N records in the session and returns them,
\* one per file; the record of a file whose parse failed carries the failure's
\* message in its error field, and the request is answered 200 whatever the
\* number of failures.
C17_UploadStoresOneRecordPerFile ==
  [][(uploadRun.pc = "parsing" /\ uploadRun'.pc = "idle") =>
       LET s == uploadRun.sessionId
           files == uploadRun.files
           stored == sessions'[s]
       IN /\ response' = [op |-> "upload", sessionId |-> s, status |-> 200, error |-> "",
                          downloadUrl |-> FALSE, count |-> Len(files)]
          /\ Len(stored.packages) = Len(files)
          /\ Len(stored.fields) = Len(files)
          /\ \A f \in DOMAIN files :
               Cardinality({ k \in DOMAIN stored.packages : stored.packages[k] = files[f] }) = 1
          /\ \A k \in DOMAIN stored.packages :
               ~HasRootManifest(stored.packages[k]) =>
                 stored.fields[k].error =
                   "Invalid SCORM package: No imsmanifest.xml found at root level"]_vars

\* An upload of a file that parses and of one that does not was answered with
\* two records, the second of which carries the error.
C17_Witness ==
  \E s \in Sessions :
    /\ response.op = "upload" /\ response.status = 200 /\ response.count = 2
    /\ uploadRun.pc = "idle"
    /\ sessions[s].packages = <<"pkgE", "pkgB">>
    /\ sessions[s].fields[1].error # "" /\ sessions[s].fields[2].error = ""

\* The mergePackages call in progress takes its next step without a failure.
MergeProceeds == PackageRead(TRUE) \/ ArchiveGenerated \/ WriteReturns(TRUE)

\* C18: a merge and a description task of the same session run side by side
\* without touching each other: whatever the task's state, a merge request is
\* accepted and a merge in progress can take its next step; no step that
\* changes the merge's state or the response changes the task manager's
\* state; no step that changes the task manager's state changes the
\* sessions' package records or the merge.
C18_MergeAndTaskIndependent ==
  /\ [](\A s \in Sessions : ~InFlight => ENABLED Merge(s))
  /\ [](InFlight => ENABLED MergeProceeds)
  /\ [][/\ (<<merged, response, mergeRun>>' # <<merged, response, mergeRun>>) => taskVars' = taskVars
        /\ (taskVars' # taskVars) => <<sessions, merged, response, mergeRun>>' =
                                     <<sessions, merged, response, mergeRun>>]_vars

\* A merge of two packages has been answered with its download URL while the
\* description task of the same session, started before it, is half-way and
\* still running.
C18_Witness ==
  \E s \in Sessions :
    /\ response.op = "merge" /\ response.sessionId = s /\ response.status = 200
    /\ mergeRun.pc = "done" /\ Len(mergeRun.packages) = 2
    /\ activeTasks[s] # NoTaskId
    /\ tasks[activeTasks[s]].status = "running"
    /\ tasks[activeTasks[s]].completed = 1 /\ tasks[activeTasks[s]].total = 2

\* The display title, lower-cased, of the k-th record handed to mergePackages.
LoweredTitle(run, k) ==
  ToLowerCase(GetDisplayTitle([title |-> run.titles[k],
                               filename |-> PackageData(run.packages[k]).filename]))

C20_StoredTitleIsParsedTitle ==
  \A s \in Sessions : \A k \in DOMAIN sessions[s].packages :
    HasRootManifest(sessions[s].packages[k]) =>
      sessions[s].fields[k].title = PackageData(sessions[s].packages[k]).title

\* The number of characters of the document that come before the place the
\* script block belongs: the first </head>, else the first </body>, else the
\* first </html>, else the end of the document.
InjectionPoint(document) ==
  IF Includes(document, "</head>") THEN IndexOf(document, "</head>") - 1
  ELSE IF Includes(document, "</body>") THEN IndexOf(document, "</body>") - 1
  ELSE IF Includes(document, "</html>") THEN IndexOf(document, "</html>") - 1
  ELSE Len(document)

\* The output is the input with the script block, followed or not by a line
\* break, put in at the injection point.
InjectedAt(input, output) ==
  \E separator \in {"", "\n"} :
    output = SubSeq(input, 1, InjectionPoint(input)) \o FinishHandlerScript \o separator
             \o SubSeq(input, InjectionPoint(input) + 1, Len(input))

\* C21: the content stored for a copied file whose name ends in .html or .htm
\* is the input content with one finish-handler script block put in before the
\* first </head>, else before the first </body>, else before the first
\* </html>, else at the end, and nothing else changed; the content of any
\* other file is the input content.
C21_InjectionChangesNothingElse ==
  (applied.op = "copy" /\ applied.done) =>
    IF IsHtmlFile(applied.name)
    THEN InjectedAt(applied.input, applied.output)
    ELSE applied.output = applied.input

\* C22: when startDescriptionGeneration returns for a list that holds a package
\* without error, the session's task is the one just created, its status is
\* 'running' and its total the number of packages of the list without error;
\* and the first progress event of every task is its 'started' event, emitted
\* before any 'progress' and any item-update event.
C22_StartReportsRunning ==
  [][/\ (pendingStarts # <<>> /\ pendingStarts' = Tail(pendingStarts)) =>
          LET s == Head(pendingStarts).sessionId
              given == Head(pendingStarts).packages
              valid == { k \in DOMAIN given : ~HasError(given[k]) }
          IN valid # {} =>
               /\ returned'.op = "startDescriptionGeneration"
               /\ activeTasks'[s] = returned'.value
               /\ tasks'[activeTasks'[s]].status = "running"
               /\ tasks'[activeTasks'[s]].total = Cardinality(valid)
               /\ updateEvents'[activeTasks'[s]] = <<>>
     /\ \A t \in TaskIds :
          /\ updateEvents'[t] # <<>> => progressEvents'[t] # <<>>
          /\ \A k \in DOMAIN progressEvents'[t] :
               (progressEvents'[t][k].type = "started") <=> (k = 1)]_vars

\* startDescriptionGeneration has returned for a list of three packages, one
\* of them with an error: the task runs with total 2, 'started' then 'progress'.
C22_Witness ==
  \E s \in Sessions :
    /\ returned.op = "startDescriptionGeneration" /\ returned.sessionId = s
    /\ activeTasks[s] = returned.value
    /\ GetTaskStatus(s).status = "running" /\ GetTaskStatus(s).total = 2
    /\ Len(progressEvents[returned.value]) = 2
    /\ progressEvents[returned.value][1].type = "started"
    /\ progressEvents[returned.value][2].type = "progress"

\* C23: getTaskStatus(s) and getTaskResults(s) are pure reads: a read changes
\* neither the task map, the result map nor a task object, and for a session
\* without a task entry (never started, or cleaned up) getTaskStatus returns
\* the status 'not_found' and for a session without a result entry
\* getTaskResults returns an empty map.
C23_ReadsArePure ==
  [][\A s \in Sessions :
       /\ (returned'.op = "getTaskStatus" /\ returned'.sessionId = s) =>
            /\ activeTasks' = activeTasks /\ taskResults' = taskResults /\ tasks' = tasks
            /\ activeTasks[s] = NoTaskId => returned'.value = [status |-> "not_found"]
            /\ activeTasks[s] # NoTaskId =>
                 /\ returned'.value.status = tasks[activeTasks[s]].status
                 /\ returned'.value.status # "not_found"
       /\ (returned'.op = "getTaskResults" /\ returned'.sessionId = s) =>
            /\ activeTasks' = activeTasks /\ taskResults' = taskResults /\ tasks' = tasks
            /\ ~taskResults[s].present => returned'.value = EmptyObject
            /\ taskResults[s].present => returned'.value = taskResults[s].map]_vars

\* getTaskResults has been read as empty for a session whose task stored a
\* description before the session was cleaned up.
C23_Witness ==
  \E s \in Sessions, t \in TaskIds :
    /\ returned.op = "getTaskResults" /\ returned.sessionId = s
    /\ returned.value = EmptyObject
    /\ t < nextTaskId /\ tasks[t].sessionId = s /\ tasks[t].results # EmptyObject
    /\ activeTasks[s] = NoTaskId

\* The readers find nothing for the session.
NothingHeld(s) ==
  GetTaskStatus(s).status = "not_found" /\ GetTaskResults(s) = EmptyObject

\* C24: cleanupTask(s) drops all state of session s and does nothing for a
\* session without state: after it getTaskStatus(s) is 'not_found' and
\* getTaskResults(s) is empty, and they stay so in every step that is not the
\* registration of a task by startDescriptionGeneration(s), also when a task
\* of s runs on with a generator call in flight.
C24_CleanupDropsState ==
  [][\A s \in Sessions :
       /\ CleanupTask(s) => NothingHeld(s)'
       /\ (CleanupTask(s) /\ NothingHeld(s)) =>
            UNCHANGED <<activeTasks, taskResults, tasks, progressEvents, updateEvents>>
       /\ (/\ NothingHeld(s)
           /\ ~(/\ pendingStarts # <<>>
                /\ pendingStarts' = Tail(pendingStarts)
                /\ Head(pendingStarts).sessionId = s)) => NothingHeld(s)']_vars

\* The session was cleaned up while its task waited for the generator; the
\* generator has returned since, and the readers still find nothing.
C24_Witness ==
  \E s \in Sessions, t \in TaskIds :
    /\ t < nextTaskId /\ tasks[t].sessionId = s
    /\ tasks[t].status = "failed" /\ tasks[t].error = TypeErrorMessage
    /\ tasks[t].results # EmptyObject
    /\ NothingHeld(s)

\* What escapeXml makes of one character.
EscapedChar(c) ==
  CASE c = "&" -> "&amp;"
    [] c = "<" -> "&lt;"
    [] c = ">" -> "&gt;"
    [] c = "\"" -> "&quot;"
    [] c = "'" -> "&#39;"
    [] OTHER -> c

RECURSIVE EscapedCharByChar(_)
EscapedCharByChar(text) ==
  IF Len(text) = 0 THEN "" ELSE EscapedChar(Head(text)) \o EscapedCharByChar(Tail(text))

\* The entity a text begins with, or the empty string.
EntityAtHead(text) ==
  LET entities == {"&amp;", "&lt;", "&gt;", "&quot;", "&#39;"}
      found == { e \in entities : Len(e) <= Len(text) /\ SubSeq(text, 1, Len(e)) = e }
  IN IF found = {} THEN "" ELSE CHOOSE e \in found : TRUE

\* The standard XML unescape: one pass from left to right, each of the five
\* entities replaced by its character.
RECURSIVE UnescapeXml(_)
UnescapeXml(text) ==
  IF Len(text) = 0 THEN ""
  ELSE LET e == EntityAtHead(text)
       IN IF e = "" THEN Head(text) \o UnescapeXml(Tail(text))
          ELSE (CHOOSE c \in XmlChars : EscapedChar(c) = e)
               \o UnescapeXml(SubSeq(text, Len(e) + 1, Len(text)))

\* C25: escapeXml replaces exactly the five characters & < > " ' by &amp; &lt;
\* &gt; &quot; &#39; and leaves every other character as it is, and the
\* standard XML unescape of escapeXml(s) is s for every s made of those five
\* characters and ASCII letters and digits.
C25_EscapeXmlRoundTrip ==
  (applied.op = "escapeXml" /\ applied.done) =>
    /\ applied.output = EscapedCharByChar(applied.input)
    /\ UnescapeXml(applied.output) = applied.input

\* escapeXml has been applied to a text that reads like an entity.
C25_Witness ==
  /\ applied.op = "escapeXml" /\ applied.done
  /\ applied.input = "&a<"
  /\ applied.output = "&amp;a&lt;"

\* A later startDescriptionGeneration on the task's session has registered
\* another task in its place.
Replaced(t) ==
  /\ tasks[t].pc # "none"
  /\ activeTasks[tasks[t].sessionId] \notin {NoTaskId, t}

\* C26: a session's descriptions have a single writer: a step of a task that
\* has been replaced by a later startDescriptionGeneration on its session
\* writes nothing into the result map and emits no item-update event, and
\* every entry getTaskResults(s) returns is an entry of the results of the
\* session's current task.
C26_SingleWriter ==
  /\ [][\A t \in TaskIds :
          (Replaced(t) /\ tasks'[t] # tasks[t]) =>
             /\ taskResults' = taskResults
             /\ updateEvents'[t] = updateEvents[t]]_vars
  /\ [](\A s \in Sessions :
          activeTasks[s] # NoTaskId =>
            \A id \in DOMAIN GetTaskResults(s) :
              /\ id \in DOMAIN tasks[activeTasks[s]].results
              /\ tasks[activeTasks[s]].results[id] = GetTaskResults(s)[id])

\* C27: within one task the packages are handled in input order, each once:
\* the item-update events of a task name the first packages of its list, one
\* event per package and in the order of the list, one result is stored for
\* each of them, and a generator call begins only for the package after those
\* already handled.
C27_InOrderOncePerPackage ==
  /\ [](\A t \in TaskIds :
          /\ Len(updateEvents[t]) <= Len(tasks[t].packages)
          /\ \A k \in DOMAIN updateEvents[t] :
               /\ updateEvents[t][k].packageId = tasks[t].packages[k]
               /\ updateEvents[t][k].packageId \in DOMAIN tasks[t].results
          /\ tasks[t].completed = Len(updateEvents[t]))
  /\ [][\A t \in TaskIds :
          /\ tasks'[t].i >= tasks[t].i
          /\ (tasks'[t].pc = "generating" /\ (tasks[t].pc # "generating" \/ tasks'[t].i # tasks[t].i))
               => tasks'[t].i = Len(updateEvents'[t])]_vars

\* C28: in every reachable state of every task 0 <= completed <= total, and
\* the progress getTaskStatus reports lies between 0 and 100.
C28_CompletedWithinTotal ==
  /\ \A t \in TaskIds : tasks[t].completed >= 0 /\ tasks[t].completed <= tasks[t].total
  /\ \A s \in Sessions :
       activeTasks[s] # NoTaskId =>
         (GetTaskStatus(s).progress >= 0 /\ GetTaskStatus(s).progress <= 100)

\* C29: for every package k of a merge, the entry file the menu's
\* launchPackage(k) navigates to is the path the merged manifest declares as
\* the href of resource_pkg_k.
C29_LaunchMatchesManifest ==
  merged.called =>
    \A k \in DOMAIN merged.packages :
      \E r \in DOMAIN MergedOutput.manifest.resources :
        /\ MergedOutput.manifest.resources[r].identifier = "resource_pkg_" \o NumberToString(k)
        /\ MergedOutput.manifest.resources[r].href
             = LaunchPackage(MergedOutput.menu, MergedOutput.menu.entries[k].launch)

\* C30: task state is cleaned up automatically: once the WebSocket of a
\* session that was sent task events has closed and the session is deleted,
\* eventually no task of the session is running and the task manager holds
\* neither a task entry nor a result entry for the session.
C30_TaskStateCleanedUp ==
  \A s \in Sessions :
    (socket[s] = "closed" /\ sent[s] # {} /\ activeTasks[s] # NoTaskId)
      ~> (/\ RunningTasks(s) = {}
          /\ activeTasks[s] = NoTaskId
          /\ ~taskResults[s].present)


====
